---- MODULE Spec2Model ----
(***************************************************************************)
(* Verification model of the Smart Trading Bot scripts.                    *)
(*                                                                         *)
(* Part 1: xauusd_candles_modes.py, the multi-timeframe candlestick        *)
(* analyzer: candle_components and the pattern detectors,                  *)
(* analyze_timeframe, aggregate_signals and run_candlestick_analysis.      *)
(*                                                                         *)
(* Numbers.  Prices are points of an integer grid.  The Python code        *)
(* computes in double precision; here every arithmetic expression is       *)
(* evaluated exactly over the rationals:                                   *)
(*   - a score is an integer (the code adds integers to 0.0);              *)
(*   - a weight is held in tenths (0.8 -> 8, 1.0 -> 10);                   *)
(*   - a contribution and the running total are held in thousandths;       *)
(*   - avg, and every other quotient, is a pair [num, den] with den > 0.   *)
(* Floating-point rounding of the products and quotients is therefore not  *)
(* part of the model.                                                      *)
(*                                                                         *)
(* Part 2: pipeline.py (decide_signal and the latest-signal section of     *)
(* run_pipeline), mt5_api.py (the /trade and /close endpoints) and         *)
(* auto_gold_5_trades.py (the lot tracker, open_multiple_trades and        *)
(* close_opposite_trades, as main.py runs them).  Volumes and lots are     *)
(* held in hundredths (0.01 -> 1).                                         *)
(***************************************************************************)
EXTENDS Integers, Sequences, FiniteSets, TLC

VARIABLES
    a_pc, a_df, a_res,              \* one call of analyze_timeframe
    g_pc, g_in, g_weights, g_out,   \* one call of aggregate_signals
    o_pc, o_res,                    \* analyze_timeframe, then aggregate_signals
                                    \* over that one timeframe
    \* run_candlestick_analysis
    r_pc,                           \* where the run stands
    r_todo,                         \* timeframes the loop has yet to visit
    r_fetches,                      \* history: how each fetch of this run ended
    results, agg, output,           \* the run's locals of these names
    new_signal, existing_data,
    r_before,                       \* history: latest_signal.json when the run began
    r_loaded,                       \* history: how the load of latest_signal.json ended
    r_saved,                        \* history: how the write of latest_signal.json ended
    r_runs,                         \* runs started so far
    output_file,                    \* candle_analysis_signal.json
    latest_file,                    \* latest_signal.json, shared with the pipeline
    \* one call of decide_signal
    d_pc, d_in, d_out,
    \* run_pipeline, from its summary on
    p_pc,                           \* where the pipeline run stands
    p_pred,                         \* result["prediction"]
    p_new_signal, p_existing_data,  \* the run's locals new_signal, existing_data
    p_loaded, p_saved,              \* history: how its load and its write ended
    signal_history,                 \* the rows of signals.db
    \* mt5_api
    m_dry,                          \* DRY_RUN
    m_positions,                    \* the positions the terminal holds
    m_sent,                         \* history: how many requests went to mt5.order_send
    m_in, m_resp,                   \* the last HTTP request handled and its response
    m_n,                            \* requests handled so far
    \* auto_gold_5_trades
    t_pc,                           \* where the main entry point stands
    t_signal,                       \* the signal of the call under way or last made
    t_positions, t_orders,          \* the symbol's positions and pending orders
    t_lot_file,                     \* lot_tracker.json
    t_sent,                         \* history: requests sent by the last open_multiple_trades
    t_closes,                       \* history: requests sent by the last close_opposite_trades
    t_calls,                        \* calls made so far
    t_first                         \* history: the lot of the first batch sent

analyzeVars == <<a_pc, a_df, a_res>>
aggVars == <<g_pc, g_in, g_weights, g_out>>
oneVars == <<o_pc, o_res>>
runVars == <<r_pc, r_todo, r_fetches, results, agg, output, new_signal,
             existing_data, r_before, r_loaded, r_saved, r_runs, output_file,
             latest_file>>
decideVars == <<d_pc, d_in, d_out>>
pipeVars == <<p_pc, p_pred, p_new_signal, p_existing_data, p_loaded, p_saved,
              signal_history>>
apiVars == <<m_dry, m_positions, m_sent, m_in, m_resp, m_n>>
traderVars == <<t_pc, t_signal, t_positions, t_orders, t_lot_file, t_sent,
                t_closes, t_calls, t_first>>
vars == <<a_pc, a_df, a_res, g_pc, g_in, g_weights, g_out, o_pc, o_res,
          r_pc, r_todo, r_fetches, results, agg, output, new_signal,
          existing_data, r_before, r_loaded, r_saved, r_runs, output_file,
          latest_file, decideVars, pipeVars, apiVars, traderVars>>

\* Python's None
None == [none |-> TRUE]

\* an exception leaving a function
Raised(name) == [raised |-> name]
IsRaised(v) == "raised" \in DOMAIN v

(***************************************************************************)
(* Exact rationals                                                         *)
(***************************************************************************)
Rat(n, d) == [num |-> n, den |-> d]
Abs(x) == IF x < 0 THEN -x ELSE x
Min(x, y) == IF x <= y THEN x ELSE y
Max(x, y) == IF x >= y THEN x ELSE y
RatLeq(p, q) == p.num * q.den <= q.num * p.den
RatLt(p, q) == p.num * q.den < q.num * p.den
RatEq(p, q) == p.num * q.den = q.num * p.den
RatAbs(p) == Rat(Abs(p.num), p.den)
RatMin(p, q) == IF RatLeq(p, q) THEN p ELSE q
RatMax(p, q) == IF RatLeq(q, p) THEN p ELSE q
\* k <= p for an integer k, without forming k * p.den
IntLeqRat(k, p) == k <= (p.num \div p.den)
\* p <= k for an integer k
RatLeqInt(p, k) == p.num <= k * p.den

\* the sum of f over S
RECURSIVE SetSum(_, _)
SetSum(f, S) ==
    IF S = {} THEN 0
    ELSE LET x == CHOOSE y \in S : TRUE
         IN f[x] + SetSum(f, S \ {x})

(***************************************************************************)
(* CONFIG (xauusd_candles_modes.py)                                        *)
(***************************************************************************)
DOJI_PCT == Rat(1, 10)
HAMMER_BODY_MAX == Rat(35, 100)
SHADOW_RATIO == 2
\* the substitute for a zero or negative range, 1e-9
RANGE_EPSILON == Rat(1, 1000000000)
\* df.tail(50)
TAIL_ROWS == 50

(***************************************************************************)
(* Candles and data frames                                                 *)
(***************************************************************************)
\* the price grid: two low and two high points, wide enough for a body of
\* one point inside a range of ten (a Doji that is also a Hammer)
Prices == {1, 2, 10, 11}

\* the bars a data provider delivers: high and low enclose open and close
Candles ==
    {r \in [Open : Prices, High : Prices, Low : Prices, Close : Prices] :
        /\ r.High >= Max(r.Open, r.Close)
        /\ r.Low <= Min(r.Open, r.Close)}

\* the rows analyze_timeframe reads: cur, prev and prev2
DETECT_ROWS == 3
\* rows older than the last DETECT_ROWS of a longer series
FillerCandle == [Open |-> 2, High |-> 10, Low |-> 1, Close |-> 2]

\* every series of at most DETECT_ROWS rows, and the longer ones, up to
\* max_rows, whose older rows are fillers
RowSeqs(max_rows) ==
    UNION {[1..n -> Candles] : n \in 0..Min(DETECT_ROWS, max_rows)}
    \cup {[i \in 1..(k - DETECT_ROWS) |-> FillerCandle] \o s :
            k \in (DETECT_ROWS + 1)..max_rows, s \in [1..DETECT_ROWS -> Candles]}

\* the name yfinance gives the time index: Date for daily bars, Datetime
\* for intraday bars
IndexNames == {"Date", "Datetime"}

\* the timestamp of the i-th bar of a series (ascending)
Timestamp(i) == [ts |-> i]
IsTimestamp(x) == "ts" \in DOMAIN x
\* a position in a RangeIndex: a plain integer, not a time
RowNumber(k) == [row |-> k]

\* a DataFrame: the OHLC rows, the time index and its name
DataFrame(name, rows) ==
    [index_name |-> name,
     index |-> [i \in 1..Len(rows) |-> Timestamp(i)],
     rows |-> rows]

DataFrames(max_rows) ==
    {DataFrame(nm, rows) : nm \in IndexNames, rows \in RowSeqs(max_rows)}

\* df.tail(k)
tail(df, k) ==
    LET n == Len(df.rows)
        from == IF n > k THEN n - k + 1 ELSE 1
    IN [index_name |-> df.index_name,
        index |-> SubSeq(df.index, from, n),
        rows |-> SubSeq(df.rows, from, n)]

\* df.reset_index(): the time index becomes a column named after it and the
\* new index is the row position 0..n-1; the result is the sequence of rows,
\* row i of it being df.loc[i - 1]
reset_index(df) ==
    [i \in 1..Len(df.rows) |->
        [Open |-> df.rows[i].Open, High |-> df.rows[i].High,
         Low |-> df.rows[i].Low, Close |-> df.rows[i].Close,
         time_column |-> df.index_name, time |-> df.index[i]]]

(***************************************************************************)
(* Candlestick pattern detectors                                           *)
(***************************************************************************)
candle_components(row) ==
    LET o == row.Open
        h == row.High
        l == row.Low
        c == row.Close
    IN [open |-> o, high |-> h, low |-> l, close |-> c,
        body |-> Abs(c - o),
        upper |-> h - Max(c, o),
        lower |-> Min(c, o) - l,
        range |-> IF h > l THEN Rat(h - l, 1) ELSE RANGE_EPSILON]

\* body <= pct * range
is_doji(row, pct) ==
    LET comp == candle_components(row)
    IN IntLeqRat(comp.body * pct.den,
                 Rat(pct.num * comp.range.num, comp.range.den))

\* faulty variant: the body of the current candle need not hold the previous one
is_bullish_engulfing_NoBody(prev_row, row) ==
    IF prev_row = None THEN FALSE
    ELSE prev_row.Close < prev_row.Open /\ row.Close > row.Open

is_bullish_engulfing(prev_row, row) ==
    IF prev_row = None THEN FALSE
    ELSE IF ~(prev_row.Close < prev_row.Open /\ row.Close > row.Open) THEN FALSE
    ELSE LET prev_low == Min(prev_row.Open, prev_row.Close)
             prev_high == Max(prev_row.Open, prev_row.Close)
             cur_low == Min(row.Open, row.Close)
             cur_high == Max(row.Open, row.Close)
         IN cur_low <= prev_low /\ cur_high >= prev_high

\* faulty variant: the directions of the two candles are not looked at
is_bearish_engulfing_NoDirection(prev_row, row) ==
    IF prev_row = None THEN FALSE
    ELSE LET prev_low == Min(prev_row.Open, prev_row.Close)
             prev_high == Max(prev_row.Open, prev_row.Close)
             cur_low == Min(row.Open, row.Close)
             cur_high == Max(row.Open, row.Close)
         IN cur_low <= prev_low /\ cur_high >= prev_high

is_bearish_engulfing(prev_row, row) ==
    IF prev_row = None THEN FALSE
    ELSE IF ~(prev_row.Close > prev_row.Open /\ row.Close < row.Open) THEN FALSE
    ELSE LET prev_low == Min(prev_row.Open, prev_row.Close)
             prev_high == Max(prev_row.Open, prev_row.Close)
             cur_low == Min(row.Open, row.Close)
             cur_high == Max(row.Open, row.Close)
         IN cur_low <= prev_low /\ cur_high >= prev_high

\* body / range <= HAMMER_BODY_MAX, the range being positive
BodyToRangeSmall(comp) ==
    IntLeqRat(comp.body * HAMMER_BODY_MAX.den,
              Rat(HAMMER_BODY_MAX.num * comp.range.num, comp.range.den))

\* faulty variant: a candle without a body is not turned away
is_hammer_ZeroBody(row) ==
    LET comp == candle_components(row)
    IN /\ BodyToRangeSmall(comp)
       /\ comp.lower >= SHADOW_RATIO * comp.body
       /\ comp.upper <= comp.body

is_hammer(row) ==
    LET comp == candle_components(row)
    IN IF comp.body = 0 THEN FALSE
       ELSE /\ BodyToRangeSmall(comp)
            /\ comp.lower >= SHADOW_RATIO * comp.body
            /\ comp.upper <= comp.body

\* faulty variant: a candle without a body is not turned away
is_shooting_star_ZeroBody(row) ==
    LET comp == candle_components(row)
    IN /\ BodyToRangeSmall(comp)
       /\ comp.upper >= SHADOW_RATIO * comp.body
       /\ comp.lower <= comp.body

is_shooting_star(row) ==
    LET comp == candle_components(row)
    IN IF comp.body = 0 THEN FALSE
       ELSE /\ BodyToRangeSmall(comp)
            /\ comp.upper >= SHADOW_RATIO * comp.body
            /\ comp.lower <= comp.body

\* cur.Close > (prev2.Open + prev2.Close) / 2
is_morning_star(prev2, prev1, cur) ==
    IF prev2 = None \/ prev1 = None THEN FALSE
    ELSE IF ~(prev2.Close < prev2.Open) THEN FALSE
    ELSE IF ~is_doji(prev1, DOJI_PCT) THEN FALSE
    ELSE IF ~(cur.Close > cur.Open) THEN FALSE
    ELSE 2 * cur.Close > prev2.Open + prev2.Close

is_evening_star(prev2, prev1, cur) ==
    IF prev2 = None \/ prev1 = None THEN FALSE
    ELSE IF ~(prev2.Close > prev2.Open) THEN FALSE
    ELSE IF ~is_doji(prev1, DOJI_PCT) THEN FALSE
    ELSE IF ~(cur.Close < cur.Open) THEN FALSE
    ELSE 2 * cur.Close < prev2.Open + prev2.Close

(***************************************************************************)
(* Per-timeframe analysis                                                  *)
(***************************************************************************)
\* str() of a float holding an integer: 30.0, -2.0
DigitStr(d) ==
    CASE d = 0 -> "0" [] d = 1 -> "1" [] d = 2 -> "2" [] d = 3 -> "3"
      [] d = 4 -> "4" [] d = 5 -> "5" [] d = 6 -> "6" [] d = 7 -> "7"
      [] d = 8 -> "8" [] d = 9 -> "9"

RECURSIVE NatStr(_)
NatStr(n) == IF n < 10 THEN DigitStr(n) ELSE NatStr(n \div 10) \o DigitStr(n % 10)

IntStr(n) == IF n < 0 THEN "-" \o NatStr(-n) ELSE NatStr(n)

FloatStr(n) == IntStr(n) \o ".0"

\* faulty variant: a Bullish Engulfing adds 80
Detections_Eighty(cur, prev, prev2) ==
    << [name |-> "Doji", hit |-> is_doji(cur, DOJI_PCT),
        delta |-> IF prev # None
                  THEN (IF prev.Close < prev.Open THEN 2 ELSE -2)
                  ELSE 0],
       [name |-> "Hammer", hit |-> is_hammer(cur), delta |-> 20],
       [name |-> "Shooting Star", hit |-> is_shooting_star(cur), delta |-> -20],
       [name |-> "Bullish Engulfing", hit |-> is_bullish_engulfing(prev, cur),
        delta |-> 80],
       [name |-> "Bearish Engulfing", hit |-> is_bearish_engulfing(prev, cur),
        delta |-> -30],
       [name |-> "Morning Star", hit |-> is_morning_star(prev2, prev, cur),
        delta |-> 35],
       [name |-> "Evening Star", hit |-> is_evening_star(prev2, prev, cur),
        delta |-> -35] >>

\* the seven "if <detector>: patterns.append(...); signal_score += ..." blocks,
\* in program order: whether the detector matched and what it adds
Detections(cur, prev, prev2) ==
    << [name |-> "Doji", hit |-> is_doji(cur, DOJI_PCT),
        delta |-> IF prev # None
                  THEN (IF prev.Close < prev.Open THEN 2 ELSE -2)
                  ELSE 0],
       [name |-> "Hammer", hit |-> is_hammer(cur), delta |-> 20],
       [name |-> "Shooting Star", hit |-> is_shooting_star(cur), delta |-> -20],
       [name |-> "Bullish Engulfing", hit |-> is_bullish_engulfing(prev, cur),
        delta |-> 30],
       [name |-> "Bearish Engulfing", hit |-> is_bearish_engulfing(prev, cur),
        delta |-> -30],
       [name |-> "Morning Star", hit |-> is_morning_star(prev2, prev, cur),
        delta |-> 35],
       [name |-> "Evening Star", hit |-> is_evening_star(prev2, prev, cur),
        delta |-> -35] >>

\* faulty variant: the first detector that matches ends the detection
RECURSIVE RunDetections_FirstMatch(_, _, _, _)
RunDetections_FirstMatch(dets, stamp, patterns, signal_score) ==
    IF dets = <<>> THEN [patterns |-> patterns, signal_score |-> signal_score]
    ELSE LET d == Head(dets)
         IN IF d.hit
            THEN [patterns |-> Append(patterns, <<d.name, stamp>>),
                  signal_score |-> signal_score + d.delta]
            ELSE RunDetections_FirstMatch(Tail(dets), stamp, patterns, signal_score)

\* the blocks run one after the other over patterns and signal_score
RECURSIVE RunDetections(_, _, _, _)
RunDetections(dets, stamp, patterns, signal_score) ==
    IF dets = <<>> THEN [patterns |-> patterns, signal_score |-> signal_score]
    ELSE LET d == Head(dets)
         IN IF d.hit
            THEN RunDetections(Tail(dets), stamp,
                               Append(patterns, <<d.name, stamp>>),
                               signal_score + d.delta)
            ELSE RunDetections(Tail(dets), stamp, patterns, signal_score)

\* faulty variant: the minus sign of the SELL threshold is missing
ScoreSignal_NoMinus(signal_score) ==
    IF signal_score >= 25 THEN "BUY"
    ELSE IF signal_score <= 25 THEN "SELL"
    ELSE "HOLD"

\* "Normalize score to a simple signal"
ScoreSignal(signal_score) ==
    IF signal_score >= 25 THEN "BUY"
    ELSE IF signal_score <= -25 THEN "SELL"
    ELSE "HOLD"

\* faulty variant: only a missing series is taken for no data
NoData_OnlyNone(df) == df = None

\* df is None or df.empty
NoData(df) == df = None \/ Len(df.rows) = 0

\* df.loc[last_idx] of a frame without that row raises KeyError
analyze_timeframe(df) ==
    IF NoData(df)
    THEN [patterns |-> <<>>, signal |-> "HOLD", score |-> 0, explain |-> "no data"]
    ELSE IF Len(df.rows) = 0 THEN Raised("KeyError")
    ELSE LET d == reset_index(tail(df, TAIL_ROWS))
             last_idx == Len(d) - 1
             cur == d[last_idx + 1]
             prev == IF last_idx - 1 >= 0 THEN d[last_idx] ELSE None
             prev2 == IF last_idx - 2 >= 0 THEN d[last_idx - 1] ELSE None
             \* cur['Date'] if 'Date' in cur else df.index[last_idx]
             stamp == IF cur.time_column = "Date" THEN cur.time
                      ELSE RowNumber(last_idx)
             acc == RunDetections(Detections(cur, prev, prev2), stamp, <<>>, 0)
         IN [patterns |-> acc.patterns,
             signal |-> ScoreSignal(acc.signal_score),
             score |-> acc.signal_score,
             explain |-> "score=" \o FloatStr(acc.signal_score),
             last_close |-> cur.Close,
             last_open |-> cur.Open]

(***************************************************************************)
(* Aggregate multi-timeframe decision                                      *)
(***************************************************************************)
Labels == {"M5", "M15", "H1", "H4", "D1"}
\* the order in which a mapping's items are visited
LabelOrder == <<"M5", "M15", "H1", "H4", "D1">>
Signals == {"BUY", "SELL", "HOLD"}

\* TF_WEIGHTS = {"M15": 0.8, "H1": 1.0, "H4": 1.5, "D1": 2.0}, in tenths
TF_WEIGHTS == [tf \in {"M15", "H1", "H4", "D1"} |->
                 CASE tf = "M15" -> 8 [] tf = "H1" -> 10
                   [] tf = "H4" -> 15 [] tf = "D1" -> 20]
\* the default of weights.get(tf, 1.0), in tenths
DEFAULT_WEIGHT == 10

\* weights.get(tf, 1.0)
WeightOf(weights, tf) ==
    IF tf \in DOMAIN weights THEN weights[tf] ELSE DEFAULT_WEIGHT

\* "map res['signal'] to base polarity"
Polarity(signal) ==
    IF signal = "BUY" THEN 1
    ELSE IF signal = "SELL" THEN -1
    ELSE 0

\* res.get('score', 0.0)
ScoreOf(res) == IF "score" \in DOMAIN res THEN res.score ELSE 0

\* faulty variant: the magnitude is not clamped at 100
MagNorm_NoClamp(res) == Abs(ScoreOf(res))

\* mag_norm = min(100.0, magnitude) / 100.0, in hundredths
MagNorm(res) == Min(100, Abs(ScoreOf(res)))

\* faulty variant: the weight is left out of the product
Contribution_NoWeight(res, w) == Polarity(res.signal) * MagNorm(res) * DEFAULT_WEIGHT

\* contribution = polarity * mag_norm * w, in thousandths
Contribution(res, w) == Polarity(res.signal) * MagNorm(res) * w

\* faulty variant: the weight of a HOLD timeframe is left out of weight_sum
AggregateStep_SkipHold(acc, tf, res, weights) ==
    LET w == WeightOf(weights, tf)
        contribution == Contribution(res, w)
    IN [total |-> acc.total + contribution,
        weight_sum |-> acc.weight_sum + (IF res.signal = "HOLD" THEN 0 ELSE w),
        details |-> (tf :> [pattern_signal |-> res.signal,
                            score |-> ScoreOf(res),
                            contribution |-> contribution,
                            patterns |-> res.patterns]) @@ acc.details]

\* one pass of the loop body over (total, weight_sum, details)
AggregateStep(acc, tf, res, weights) ==
    LET w == WeightOf(weights, tf)
        contribution == Contribution(res, w)
    IN [total |-> acc.total + contribution,
        weight_sum |-> acc.weight_sum + w,
        details |-> (tf :> [pattern_signal |-> res.signal,
                            score |-> ScoreOf(res),
                            contribution |-> contribution,
                            patterns |-> res.patterns]) @@ acc.details]

\* for tf, res in tf_results.items(): ...
RECURSIVE AggregateLoop(_, _, _, _)
AggregateLoop(order, tf_results, weights, acc) ==
    IF order = <<>> THEN acc
    ELSE IF Head(order) \in DOMAIN tf_results
         THEN AggregateLoop(Tail(order), tf_results, weights,
                            AggregateStep(acc, Head(order),
                                          tf_results[Head(order)], weights))
         ELSE AggregateLoop(Tail(order), tf_results, weights, acc)

\* total / weight_sum: thousandths over tenths.  Python raises on a zero
\* divisor
ZeroDivisionError == Raised("ZeroDivisionError")
Divide(total, weight_sum) ==
    IF weight_sum = 0 THEN ZeroDivisionError
    ELSE Rat(total, 100 * weight_sum)

\* faulty variant: strict comparisons
FinalSignal_Strict(avg) ==
    IF RatLt(Rat(1, 4), avg) THEN "BUY"
    ELSE IF RatLt(avg, Rat(-1, 4)) THEN "SELL"
    ELSE "HOLD"

\* faulty variant: thresholds of one half
FinalSignal_Half(avg) ==
    IF RatLeq(Rat(1, 2), avg) THEN "BUY"
    ELSE IF RatLeq(avg, Rat(-1, 2)) THEN "SELL"
    ELSE "HOLD"

\* "Map avg to final signal"
FinalSignal(avg) ==
    IF RatLeq(Rat(1, 4), avg) THEN "BUY"
    ELSE IF RatLeq(avg, Rat(-1, 4)) THEN "SELL"
    ELSE "HOLD"

\* int(x) of a rational: towards zero
Trunc(p) == IF p.num >= 0 THEN p.num \div p.den ELSE -((-p.num) \div p.den)

\* faulty variant: round(...) in place of int(...)
Confidence_Round(avg) ==
    LET a == RatAbs(avg)
        x == Rat(a.num * 100 + 10 * a.den, a.den)
        y == RatMin(Rat(95, 1), RatMax(Rat(10, 1), x))
    IN (2 * y.num + y.den) \div (2 * y.den)

\* faulty variant: the cap at 95 is missing
Confidence_NoCap(avg) ==
    LET a == RatAbs(avg)
        x == Rat(a.num * 100 + 10 * a.den, a.den)
    IN Trunc(RatMax(Rat(10, 1), x))

\* int(min(95, max(10, (abs(avg) * 100) + 10)))
Confidence(avg) ==
    LET a == RatAbs(avg)
        x == Rat(a.num * 100 + 10 * a.den, a.den)
    IN Trunc(RatMin(Rat(95, 1), RatMax(Rat(10, 1), x)))

EmptyMap == [tf \in {} |-> None]

\* faulty variant: the weight_sum == 0 return is missing
aggregate_signals_NoGuard(tf_results, weights) ==
    LET acc == AggregateLoop(LabelOrder, tf_results, weights,
                             [total |-> 0, weight_sum |-> 0, details |-> EmptyMap])
        avg == Divide(acc.total, acc.weight_sum)
    IN IF avg = ZeroDivisionError THEN ZeroDivisionError
       ELSE [signal |-> FinalSignal(avg),
             confidence |-> Confidence(avg),
             avg |-> avg,
             details |-> acc.details]

aggregate_signals(tf_results, weights) ==
    LET acc == AggregateLoop(LabelOrder, tf_results, weights,
                             [total |-> 0, weight_sum |-> 0, details |-> EmptyMap])
    IN IF acc.weight_sum = 0
       THEN [signal |-> "HOLD", confidence |-> 10, details |-> acc.details]
       ELSE LET avg == Divide(acc.total, acc.weight_sum)
            IN IF avg = ZeroDivisionError THEN ZeroDivisionError
               ELSE [signal |-> FinalSignal(avg),
                     confidence |-> Confidence(avg),
                     avg |-> avg,
                     details |-> acc.details]

(***************************************************************************)
(* One call of analyze_timeframe on any series                             *)
(***************************************************************************)
AnalyzeIdle ==
    /\ a_pc = "idle"
    /\ a_df = None
    /\ a_res = None

AggIdle ==
    /\ g_pc = "idle"
    /\ g_in = None
    /\ g_weights = None
    /\ g_out = None

OneIdle ==
    /\ o_pc = "idle"
    /\ o_res = None

\* no run of run_candlestick_analysis
RunIdle ==
    /\ r_pc = "off"
    /\ r_todo = <<>>
    /\ r_fetches = EmptyMap
    /\ results = EmptyMap
    /\ agg = None
    /\ output = None
    /\ new_signal = None
    /\ existing_data = None
    /\ r_before = None
    /\ r_loaded = "no"
    /\ r_saved = "no"
    /\ r_runs = 0
    /\ output_file = None
    /\ latest_file = None

\* no call of decide_signal
DecideIdle ==
    /\ d_pc = "idle"
    /\ d_in = None
    /\ d_out = None

\* no run of run_pipeline
PipeIdle ==
    /\ p_pc = "off"
    /\ p_pred = None
    /\ p_new_signal = None
    /\ p_existing_data = None
    /\ p_loaded = "no"
    /\ p_saved = "no"
    /\ signal_history = <<>>

\* the MT5 API server is not running
ApiIdle ==
    /\ m_dry = TRUE
    /\ m_positions = {}
    /\ m_sent = 0
    /\ m_in = None
    /\ m_resp = None
    /\ m_n = 0

\* the gold trader is not running
TraderIdle ==
    /\ t_pc = "off"
    /\ t_signal = ""
    /\ t_positions = {}
    /\ t_orders = {}
    /\ t_lot_file = None
    /\ t_sent = <<>>
    /\ t_closes = <<>>
    /\ t_calls = 0
    /\ t_first = None

Idle ==
    /\ AnalyzeIdle /\ AggIdle /\ OneIdle /\ RunIdle
    /\ DecideIdle /\ PipeIdle /\ ApiIdle /\ TraderIdle

\* longest series analysed
MaxRows == 3

AnalyzeCall ==
    /\ a_pc = "idle"
    /\ \E df \in DataFrames(MaxRows) \cup {None} :
        /\ a_df' = df
        /\ a_res' = analyze_timeframe(df)
    /\ a_pc' = "done"
    /\ UNCHANGED <<aggVars, oneVars, runVars>>
    /\ UNCHANGED <<decideVars, pipeVars, apiVars, traderVars>>

SpecAnalyze == Idle /\ [][AnalyzeCall]_vars

(***************************************************************************)
(* One call of aggregate_signals on any mapping                            *)
(***************************************************************************)
\* most timeframes in one mapping
MaxTimeframes == 2

\* scores a caller may pass, inside and beyond the clamp at 100
ScoreInputs == {-120, -50, -25, 0, 25, 30, 40}

ResultInputs == [signal : Signals, score : ScoreInputs, patterns : {<<>>}]

MappingInputs ==
    UNION {[keys -> ResultInputs] :
            keys \in {k \in SUBSET Labels : Cardinality(k) <= MaxTimeframes}}

\* weight tables, in tenths: the program's, one that lists M5, and none
OtherWeights == ("M5" :> 3) @@ ("M15" :> 25) @@ ("H4" :> 7)
WeightTables == {TF_WEIGHTS, OtherWeights, EmptyMap}

AggCall ==
    /\ g_pc = "idle"
    /\ \E m \in MappingInputs, w \in WeightTables :
        /\ g_in' = m
        /\ g_weights' = w
        /\ g_out' = aggregate_signals(m, w)
    /\ g_pc' = "done"
    /\ UNCHANGED <<analyzeVars, oneVars, runVars>>
    /\ UNCHANGED <<decideVars, pipeVars, apiVars, traderVars>>

SpecAgg == Idle /\ [][AggCall]_vars

(***************************************************************************)
(* analyze_timeframe on any series, then aggregate_signals over the        *)
(* mapping that holds that one result, under any label and weight table    *)
(***************************************************************************)
OneAnalyze ==
    /\ o_pc = "idle"
    /\ \E df \in DataFrames(MaxRows) \cup {None} :
        o_res' = analyze_timeframe(df)
    /\ o_pc' = "analyzed"
    /\ UNCHANGED <<analyzeVars, aggVars, runVars>>
    /\ UNCHANGED <<decideVars, pipeVars, apiVars, traderVars>>

OneAggregate ==
    /\ o_pc = "analyzed"
    /\ \E tf \in Labels, w \in WeightTables :
        /\ g_in' = (tf :> o_res)
        /\ g_weights' = w
        /\ g_out' = aggregate_signals(tf :> o_res, w)
    /\ g_pc' = "done"
    /\ o_pc' = "aggregated"
    /\ UNCHANGED <<analyzeVars, o_res, runVars>>
    /\ UNCHANGED <<decideVars, pipeVars, apiVars, traderVars>>

SpecOne == Idle /\ [][OneAnalyze \/ OneAggregate]_vars

(***************************************************************************)
(* analyze_timeframe on a series that may hold malformed candles (nothing  *)
(* validates the bars), then aggregate_signals over that one result under  *)
(* the program's weight table                                              *)
(***************************************************************************)
\* bars whose high and low do not enclose open and close
MalformedCandles ==
    {[Open |-> 2, High |-> 1, Low |-> 10, Close |-> 2],
     [Open |-> 10, High |-> 2, Low |-> 1, Close |-> 11],
     [Open |-> 2, High |-> 11, Low |-> 10, Close |-> 1],
     [Open |-> 11, High |-> 1, Low |-> 11, Close |-> 10],
     [Open |-> 1, High |-> 1, Low |-> 2, Close |-> 1]}

AnyCandles == Candles \cup MalformedCandles

AnyRowSeqs(max_rows) ==
    UNION {[1..n -> AnyCandles] : n \in 0..Min(DETECT_ROWS, max_rows)}
    \cup {[i \in 1..(k - DETECT_ROWS) |-> FillerCandle] \o s :
            k \in (DETECT_ROWS + 1)..max_rows, s \in [1..DETECT_ROWS -> AnyCandles]}

AnyDataFrames(max_rows) ==
    {DataFrame(nm, rows) : nm \in IndexNames, rows \in AnyRowSeqs(max_rows)}

AnyAnalyze ==
    /\ o_pc = "idle"
    /\ \E df \in AnyDataFrames(MaxRows) \cup {None} :
        o_res' = analyze_timeframe(df)
    /\ o_pc' = "analyzed_any"
    /\ UNCHANGED <<analyzeVars, aggVars, runVars>>
    /\ UNCHANGED <<decideVars, pipeVars, apiVars, traderVars>>

AnyAggregate ==
    /\ o_pc = "analyzed_any"
    /\ \E tf \in Labels :
        /\ g_in' = (tf :> o_res)
        /\ g_out' = aggregate_signals(tf :> o_res, TF_WEIGHTS)
    /\ g_weights' = TF_WEIGHTS
    /\ g_pc' = "done"
    /\ o_pc' = "aggregated_any"
    /\ UNCHANGED <<analyzeVars, o_res, runVars>>
    /\ UNCHANGED <<decideVars, pipeVars, apiVars, traderVars>>

SpecAny == Idle /\ [][AnyAnalyze \/ AnyAggregate]_vars

(***************************************************************************)
(* run_candlestick_analysis                                                *)
(***************************************************************************)
SYMBOL == "GC=F"
\* the keys of TIMEFRAMES in the order the loop visits them
TIMEFRAMES == <<"M5", "M15">>

\* what ticker.history hands back: an exception, or a frame some of whose
\* rows may hold a NaN
RawFrame(name, rows) ==
    [index_name |-> name,
     index |-> [i \in 1..Len(rows) |-> Timestamp(i)],
     rows |-> rows]
Bar(o, h, l, c) == [Open |-> o, High |-> h, Low |-> l, Close |-> c, has_nan |-> FALSE]
NaNBar == [Open |-> 1, High |-> 1, Low |-> 1, Close |-> 1, has_nan |-> TRUE]

ProviderError == Raised("Exception")
NoHistory == RawFrame("Datetime", <<>>)
OnlyNaN == RawFrame("Datetime", <<NaNBar>>)
HammerHistory == RawFrame("Datetime", <<Bar(10, 11, 2, 11)>>)
BullishHistory ==
    RawFrame("Datetime", <<Bar(10, 10, 2, 2), NaNBar, Bar(1, 11, 1, 11)>>)
BearishHistory ==
    RawFrame("Datetime", <<Bar(2, 10, 2, 10), Bar(11, 11, 1, 1)>>)
DailyBullishHistory ==
    RawFrame("Date", <<Bar(10, 10, 2, 2), Bar(1, 11, 1, 11)>>)

ProviderResponses ==
    {ProviderError, NoHistory, OnlyNaN, HammerHistory, BullishHistory,
     BearishHistory, DailyBullishHistory}

\* df[[...]].dropna()
RECURSIVE KeptRows(_, _)
KeptRows(df, i) ==
    IF i > Len(df.rows) THEN <<>>
    ELSE IF df.rows[i].has_nan THEN KeptRows(df, i + 1)
    ELSE <<i>> \o KeptRows(df, i + 1)

dropna(df) ==
    LET kept == KeptRows(df, 1)
    IN [index_name |-> df.index_name,
        index |-> [k \in 1..Len(kept) |-> df.index[kept[k]]],
        rows |-> [k \in 1..Len(kept) |-> df.rows[kept[k]]]]

fetch_ohlc(response) ==
    IF IsRaised(response) THEN response
    ELSE IF Len(response.rows) = 0 THEN None
    ELSE dropna(response)

\* faulty variant: no try/except around the fetch
FetchOrNone_NoExcept(response) == fetch_ohlc(response)

\* try: df = fetch_ohlc(...)  except Exception: df = None
FetchOrNone(response) ==
    LET df == fetch_ohlc(response)
    IN IF IsRaised(df) THEN None ELSE df

\* history: how a fetch ended
FetchOutcome(response) ==
    LET df == fetch_ohlc(response)
    IN IF IsRaised(df) THEN "raised"
       ELSE IF df = None THEN "none"
       ELSE IF Len(df.rows) = 0 THEN "empty"
       ELSE "data"

\* files: absent, unparsable, or holding a JSON document
Absent == [absent |-> TRUE]
Corrupt == [corrupt |-> TRUE]
Json(doc) == [json |-> doc]
IsJson(file) == "json" \in DOMAIN file

\* what the other scripts leave in latest_signal.json
PipelineFields ==
    ("Signal" :> "BUY") @@ ("Confidence" :> "70%") @@ ("Chart_signal" :> "SELL")
StaleCandleFields ==
    ("candle_Signal" :> "SELL") @@ ("candle_Confidence" :> "40%")
InitialLatest ==
    {Absent, Corrupt, Json(PipelineFields), Json(StaleCandleFields @@ PipelineFields)}

\* json.dump cannot serialise a pandas Timestamp
Serialisable(out) ==
    \A tf \in DOMAIN out.timeframe_results :
        \A i \in 1..Len(out.timeframe_results[tf].patterns) :
            ~IsTimestamp(out.timeframe_results[tf].patterns[i][2])

\* with open(path, "w") as f: json.dump(doc, f): open may fail and leave the
\* file alone; once open the file is cut to nothing, and a failing dump
\* leaves a fragment
WriteOutcomes == {"ok", "open_error", "dump_error"}
WriteFile(file, doc, outcome) ==
    CASE outcome = "ok" -> Json(doc)
      [] outcome = "open_error" -> file
      [] outcome = "dump_error" -> Corrupt

\* f"{agg['confidence']}%"
PercentStr(n) == IntStr(n) \o "%"

\* faulty variant: the new fields take the place of the document
DictUpdate_Replace(d, new) == new

\* existing_data.update(new_signal)
DictUpdate(d, new) == new @@ d

\* most runs
MaxRuns == 2

RunStart ==
    /\ r_pc = "loop"
    /\ r_todo = TIMEFRAMES
    /\ r_fetches = EmptyMap
    /\ results = EmptyMap
    /\ agg = None
    /\ output = None
    /\ new_signal = None
    /\ existing_data = None
    /\ r_loaded = "no"
    /\ r_saved = "no"

RunInit ==
    /\ RunStart
    /\ r_runs = 1
    /\ output_file = Absent
    /\ latest_file \in InitialLatest
    /\ r_before = latest_file

\* one pass of "for tf, cfg in timeframes.items()"
RunFetchAnalyze ==
    /\ r_pc = "loop"
    /\ r_todo # <<>>
    /\ \E response \in ProviderResponses :
        LET tf == Head(r_todo)
            df == FetchOrNone(response)
            res == IF IsRaised(df) THEN df ELSE analyze_timeframe(df)
        IN /\ r_fetches' = (tf :> FetchOutcome(response)) @@ r_fetches
           /\ IF IsRaised(res)
              THEN /\ r_pc' = "crashed"
                   /\ UNCHANGED <<r_todo, results>>
              ELSE /\ results' = (tf :> res) @@ results
                   /\ r_todo' = Tail(r_todo)
                   /\ r_pc' = "loop"
    /\ UNCHANGED <<agg, output, new_signal, existing_data, r_before, r_loaded,
                   r_saved, r_runs, output_file, latest_file>>
    /\ UNCHANGED <<analyzeVars, aggVars, oneVars>>
    /\ UNCHANGED <<decideVars, apiVars, traderVars>>
    /\ UNCHANGED pipeVars

\* agg = aggregate_signals(results); output = {...}
RunAggregate ==
    /\ r_pc = "loop"
    /\ r_todo = <<>>
    /\ LET a == aggregate_signals(results, TF_WEIGHTS)
       IN IF IsRaised(a)
          THEN /\ r_pc' = "crashed"
               /\ UNCHANGED <<agg, output>>
          ELSE /\ agg' = a
               /\ output' = [symbol |-> SYMBOL, timeframe_results |-> results,
                             final |-> a]
               /\ r_pc' = "save_output"
    /\ UNCHANGED <<r_todo, r_fetches, results, new_signal, existing_data,
                   r_before, r_loaded, r_saved, r_runs, output_file, latest_file>>
    /\ UNCHANGED <<analyzeVars, aggVars, oneVars>>
    /\ UNCHANGED <<decideVars, apiVars, traderVars>>
    /\ UNCHANGED pipeVars

\* "Save JSON (safe write)", the summary, and new_signal
RunSaveOutput ==
    /\ r_pc = "save_output"
    /\ \E outcome \in WriteOutcomes :
        /\ (outcome = "ok") => Serialisable(output)
        /\ output_file' = WriteFile(output_file, output, outcome)
    /\ new_signal' = ("candle_Signal" :> agg.signal)
                     @@ ("candle_Confidence" :> PercentStr(agg.confidence))
    /\ r_pc' = "load_latest"
    /\ UNCHANGED <<r_todo, r_fetches, results, agg, output, existing_data,
                   r_before, r_loaded, r_saved, r_runs, latest_file>>
    /\ UNCHANGED <<analyzeVars, aggVars, oneVars>>
    /\ UNCHANGED <<decideVars, apiVars, traderVars>>
    /\ UNCHANGED pipeVars

\* "Load existing file if present" and existing_data.update(new_signal)
RunLoadLatest ==
    /\ r_pc = "load_latest"
    /\ \E read_ok \in BOOLEAN :
        LET loaded == IF IsJson(latest_file) /\ read_ok
                      THEN latest_file.json
                      ELSE EmptyMap
        IN /\ existing_data' = DictUpdate(loaded, new_signal)
           /\ r_loaded' = IF latest_file = Absent THEN "absent"
                          ELSE IF IsJson(latest_file) /\ read_ok THEN "parsed"
                          ELSE "unreadable"
    /\ r_pc' = "save_latest"
    /\ UNCHANGED <<r_todo, r_fetches, results, agg, output, new_signal,
                   r_before, r_saved, r_runs, output_file, latest_file>>
    /\ UNCHANGED <<analyzeVars, aggVars, oneVars>>
    /\ UNCHANGED <<decideVars, apiVars, traderVars>>
    /\ UNCHANGED pipeVars

\* "Save back to JSON" and return output
RunSaveLatest ==
    /\ r_pc = "save_latest"
    /\ \E outcome \in WriteOutcomes :
        /\ latest_file' = WriteFile(latest_file, existing_data, outcome)
        /\ r_saved' = outcome
    /\ r_pc' = "returned"
    /\ UNCHANGED <<r_todo, r_fetches, results, agg, output, new_signal,
                   existing_data, r_before, r_loaded, r_runs, output_file>>
    /\ UNCHANGED <<analyzeVars, aggVars, oneVars>>
    /\ UNCHANGED <<decideVars, apiVars, traderVars>>
    /\ UNCHANGED pipeVars

\* the script is run again
RunAgain ==
    /\ r_pc = "returned"
    /\ r_runs < MaxRuns
    /\ r_runs' = r_runs + 1
    /\ r_pc' = "loop"
    /\ r_todo' = TIMEFRAMES
    /\ r_fetches' = EmptyMap
    /\ results' = EmptyMap
    /\ agg' = None
    /\ output' = None
    /\ new_signal' = None
    /\ existing_data' = None
    /\ r_before' = latest_file
    /\ r_loaded' = "no"
    /\ r_saved' = "no"
    /\ UNCHANGED <<output_file, latest_file>>
    /\ UNCHANGED <<analyzeVars, aggVars, oneVars>>
    /\ UNCHANGED <<decideVars, apiVars, traderVars>>
    /\ UNCHANGED pipeVars

Init ==
    /\ AnalyzeIdle /\ AggIdle /\ OneIdle /\ RunInit
    /\ DecideIdle /\ PipeIdle /\ ApiIdle /\ TraderIdle

Next ==
    \/ RunFetchAnalyze
    \/ RunAggregate
    \/ RunSaveOutput
    \/ RunLoadLatest
    \/ RunSaveLatest
    \/ RunAgain

Spec == Init /\ [][Next]_vars

(***************************************************************************)
(* pipeline.py: decide_signal                                              *)
(***************************************************************************)
\* d.get(key, default)
Get(d, key, default) == IF key \in DOMAIN d THEN d[key] ELSE default

\* "not indicators": None and the empty dict
Falsy(d) == d = None \/ DOMAIN d = {}

\* "Trend rule"
TrendRule(p, sma_long, momentum) ==
    IF p > sma_long /\ momentum > 0
    THEN [delta |-> 30,
          reasons |-> <<"price above long SMA and positive momentum">>]
    ELSE IF p < sma_long /\ momentum < 0
    THEN [delta |-> -30,
          reasons |-> <<"price below long SMA and negative momentum">>]
    ELSE [delta |-> 0, reasons |-> <<>>]

\* "RSI influence"
RsiRule(rsi) ==
    IF rsi > 70 THEN [delta |-> -25, reasons |-> <<"RSI overbought">>]
    ELSE IF rsi < 30 THEN [delta |-> 25, reasons |-> <<"RSI oversold">>]
    ELSE [delta |-> 0, reasons |-> <<>>]

\* "News sentiment influence": the sentiment is an exact rational
NewsRule(news_sentiment) ==
    IF RatLt(Rat(1, 10), news_sentiment)
    THEN <<"positive news momentum">>
    ELSE IF RatLt(news_sentiment, Rat(-1, 10))
    THEN <<"negative news momentum">>
    ELSE <<>>

\* "Map score to signal"
MapScore(score) ==
    IF RatLeq(Rat(20, 1), score) THEN "BUY"
    ELSE IF RatLeq(score, Rat(-20, 1)) THEN "SELL"
    ELSE "HOLD"

\* conf = min(95, max(10, int(50 + score)))
DecideConfidence(score) ==
    Min(95, Max(10, Trunc(Rat(50 * score.den + score.num, score.den))))

decide_signal(indicators, news_sentiment) ==
    IF Falsy(indicators) \/ "error" \in DOMAIN indicators
    THEN [signal |-> "HOLD", confidence |-> 20,
          reasons |-> <<"insufficient data">>]
    ELSE IF "latest_price" \notin DOMAIN indicators
    THEN Raised("KeyError")
    ELSE LET p == indicators["latest_price"]
             sma_long == Get(indicators, "sma_long", p)
             momentum == Get(indicators, "momentum_5", 0)
             rsi == Get(indicators, "rsi_14", 50)
             trend == TrendRule(p, sma_long, momentum)
             rsi_rule == RsiRule(rsi)
             score == Rat((trend.delta + rsi_rule.delta) * news_sentiment.den
                            + 20 * news_sentiment.num,
                          news_sentiment.den)
         IN [signal |-> MapScore(score),
             confidence |-> DecideConfidence(score),
             score |-> score,
             reasons |-> trend.reasons \o rsi_rule.reasons
                           \o NewsRule(news_sentiment)]

\* the indicator sets of the calls: with and without each optional key, with
\* an error, empty, absent, and without the price
OptionalKey(key, values) ==
    {EmptyMap} \cup {key :> v : v \in values}
FullIndicators ==
    {("latest_price" :> p) @@ s @@ m @@ r :
        p \in {90, 100, 110},
        s \in OptionalKey("sma_long", {100}),
        m \in OptionalKey("momentum_5", {-1, 1}),
        r \in OptionalKey("rsi_14", {20, 30, 70, 75})}
IndicatorInputs ==
    FullIndicators
    \cup {None, EmptyMap, "rsi_14" :> 75,
          ("error" :> "Not enough history") @@ ("latest_price" :> 100)}
\* score / len(headlines), for up to six headlines
SentimentInputs ==
    {Rat(-3, 2), Rat(-1, 1), Rat(-1, 3), Rat(0, 1), Rat(1, 6), Rat(1, 3),
     Rat(1, 1), Rat(3, 2)}

DecideCall ==
    /\ d_pc = "idle"
    /\ \E indicators \in IndicatorInputs, news_sentiment \in SentimentInputs :
        /\ d_in' = [indicators |-> indicators,
                    news_sentiment |-> news_sentiment]
        /\ d_out' = decide_signal(indicators, news_sentiment)
    /\ d_pc' = "returned"
    /\ UNCHANGED <<analyzeVars, aggVars, oneVars, runVars>>
    /\ UNCHANGED <<pipeVars, apiVars, traderVars>>

SpecDecide == Idle /\ [][DecideCall]_vars

(***************************************************************************)
(* pipeline.py: run_pipeline, sharing latest_signal.json with              *)
(* run_candlestick_analysis                                                *)
(***************************************************************************)
\* result["prediction"]: the fallback without price samples, or what
\* decide_signal returns
FallbackPrediction == [signal |-> "HOLD", confidence |-> 10]
PipePredictions ==
    {FallbackPrediction,
     decide_signal(None, Rat(0, 1)),
     decide_signal(("latest_price" :> 110) @@ ("sma_long" :> 100)
                     @@ ("momentum_5" :> 1), Rat(1, 3)),
     decide_signal(("latest_price" :> 100) @@ ("rsi_14" :> 75), Rat(-1, 1))}

\* steps 1 to 4, the summary, and new_signal
PipeStart ==
    /\ p_pc = "off"
    /\ \E pred \in PipePredictions :
        /\ p_pred' = pred
        /\ p_new_signal' =
              ("Signal" :> Get(pred, "signal", "HOLD"))
              @@ ("Confidence" :> PercentStr(Get(pred, "confidence", 0)))
    /\ p_pc' = "load_latest"
    /\ UNCHANGED <<p_existing_data, p_loaded, p_saved, signal_history>>
    /\ UNCHANGED <<analyzeVars, aggVars, oneVars, runVars>>
    /\ UNCHANGED <<decideVars, apiVars, traderVars>>

\* "Load existing file if present" and existing_data.update(new_signal)
PipeLoadLatest ==
    /\ p_pc = "load_latest"
    /\ \E read_ok \in BOOLEAN :
        LET loaded == IF IsJson(latest_file) /\ read_ok
                      THEN latest_file.json
                      ELSE EmptyMap
        IN /\ p_existing_data' = DictUpdate(loaded, p_new_signal)
           /\ p_loaded' = IF latest_file = Absent THEN "absent"
                          ELSE IF IsJson(latest_file) /\ read_ok THEN "parsed"
                          ELSE "unreadable"
    /\ p_pc' = "save_latest"
    /\ UNCHANGED <<p_pred, p_new_signal, p_saved, signal_history>>
    /\ UNCHANGED <<analyzeVars, aggVars, oneVars, runVars>>
    /\ UNCHANGED <<decideVars, apiVars, traderVars>>

\* "Save back to JSON"
PipeSaveLatest ==
    /\ p_pc = "save_latest"
    /\ \E outcome \in WriteOutcomes :
        /\ latest_file' = WriteFile(latest_file, p_existing_data, outcome)
        /\ p_saved' = outcome
    /\ p_pc' = "record"
    /\ UNCHANGED <<p_pred, p_new_signal, p_existing_data, p_loaded,
                   signal_history>>
    /\ UNCHANGED <<analyzeVars, aggVars, oneVars>>
    /\ UNCHANGED <<r_pc, r_todo, r_fetches, results, agg, output, new_signal,
                   existing_data, r_before, r_loaded, r_saved, r_runs,
                   output_file>>
    /\ UNCHANGED <<decideVars, apiVars, traderVars>>

\* the row of signal_history made from latest_signal.json
HistoryRow(latest_data) ==
    [Chart_signal |-> Get(latest_data, "Chart_signal", "N/A"),
     signal |-> Get(latest_data, "Signal", "N/A"),
     confidence |-> Get(latest_data, "Confidence", "N/A"),
     candle_Signal |-> Get(latest_data, "candle_Signal", "N/A"),
     candle_Confidence |-> Get(latest_data, "candle_Confidence", "N/A"),
     source |-> "pipeline"]

\* "Load latest signal JSON file" (no try around json.load) and "Insert new
\* record"
PipeInsertRow ==
    /\ p_pc = "record"
    /\ IF latest_file = Corrupt
       THEN /\ p_pc' = "crashed"
            /\ UNCHANGED signal_history
       ELSE /\ signal_history' =
                  Append(signal_history,
                         HistoryRow(IF IsJson(latest_file)
                                    THEN latest_file.json ELSE EmptyMap))
            /\ p_pc' = "returned"
    /\ UNCHANGED <<p_pred, p_new_signal, p_existing_data, p_loaded, p_saved>>
    /\ UNCHANGED <<analyzeVars, aggVars, oneVars, runVars>>
    /\ UNCHANGED <<decideVars, apiVars, traderVars>>

\* the candle run has fetched, analysed and aggregated, and the pipeline
\* starts beside it
SharedHistories == {NoHistory, BullishHistory, BearishHistory}
SharedInit ==
    /\ AnalyzeIdle /\ AggIdle /\ OneIdle
    /\ DecideIdle /\ PipeIdle /\ ApiIdle /\ TraderIdle
    /\ \E first \in SharedHistories, second \in SharedHistories :
        LET res == ("M5" :> analyze_timeframe(FetchOrNone(first)))
                   @@ ("M15" :> analyze_timeframe(FetchOrNone(second)))
            a == aggregate_signals(res, TF_WEIGHTS)
        IN /\ r_fetches = ("M5" :> FetchOutcome(first))
                          @@ ("M15" :> FetchOutcome(second))
           /\ results = res
           /\ agg = a
           /\ output = [symbol |-> SYMBOL, timeframe_results |-> res,
                        final |-> a]
    /\ r_pc = "save_output"
    /\ r_todo = <<>>
    /\ new_signal = None
    /\ existing_data = None
    /\ r_loaded = "no"
    /\ r_saved = "no"
    /\ r_runs = 1
    /\ output_file = Absent
    /\ latest_file \in InitialLatest
    /\ r_before = latest_file

SharedNext ==
    \/ RunSaveOutput
    \/ RunLoadLatest
    \/ RunSaveLatest
    \/ PipeStart
    \/ PipeLoadLatest
    \/ PipeSaveLatest
    \/ PipeInsertRow

SpecShared == SharedInit /\ [][SharedNext]_vars

(***************************************************************************)
(* auto_gold_5_trades.py, as the main entry point of main.py runs it       *)
(***************************************************************************)
\* lots in hundredths
BASE_LOT == 1
LOT_INCREMENT == 1
TP_PIPS == <<70, 100, 150, 200, 300>>
TRADE_MAGIC == 2025
BREAKEVEN_BUFFER == 5

\* what get_latest_chart_signal hands back: the stripped, upper-cased
\* chart_signal of the newest row, or None; None and the empty string, both
\* of them false for "if signal:", are held as ""
TraderSignals == {"BUY", "SELL", "HOLD", ""}

\* f"DB-Signal-{signal}"
SignalComment(signal) == "DB-Signal-" \o signal

\* a pending order and a position placed by other means
ManualOrder == [comment |-> "manual", magic |-> 0]
ManualPosition ==
    [comment |-> "manual", type |-> "BUY", volume |-> 10, magic |-> 0,
     tp |-> 0, sl |-> 0]

\* lot_tracker.json as the script finds it
InitialLotFiles == {Absent, Corrupt, Json(EmptyMap)}

\* json.load raises on a file that is there and cannot be parsed
LoadRaises(file) == file # Absent /\ ~IsJson(file)
load_lot_size(file) ==
    IF file = Absent THEN BASE_LOT
    ELSE Get(file.json, "last_lot", BASE_LOT)

save_lot_size(new_lot) == Json("last_lot" :> new_lot)

\* faulty variant: the lot grows whether or not trades are open
get_dynamic_lot_Always(positions, orders, file) ==
    IF LoadRaises(file) THEN [raised |-> TRUE, file |-> file]
    ELSE LET last_lot == load_lot_size(file)
         IN [raised |-> FALSE,
             lot |-> last_lot + LOT_INCREMENT,
             file |-> save_lot_size(last_lot + LOT_INCREMENT)]

\* the lot returned and the tracker file left behind
get_dynamic_lot(positions, orders, file) ==
    IF LoadRaises(file) THEN [raised |-> TRUE, file |-> file]
    ELSE LET last_lot == load_lot_size(file)
         IN IF positions = {} /\ orders = {}
            THEN [raised |-> FALSE,
                  lot |-> last_lot + LOT_INCREMENT,
                  file |-> save_lot_size(last_lot + LOT_INCREMENT)]
            ELSE [raised |-> FALSE, lot |-> last_lot, file |-> file]

has_active_signal_trades(positions, orders, signal) ==
    \/ \E pos \in positions :
          pos.comment = SignalComment(signal) /\ pos.magic = TRADE_MAGIC
    \/ \E order \in orders :
          order.comment = SignalComment(signal) /\ order.magic = TRADE_MAGIC

\* the request of the i-th pass of "for i, tp_pips in enumerate(TP_PIPS)";
\* tp is held as its distance from the price in pips
OpenRequest(signal, dynamic_lot, i) ==
    [type |-> IF signal = "BUY" THEN "BUY" ELSE "SELL",
     volume |-> dynamic_lot,
     tp |-> IF signal = "BUY" THEN TP_PIPS[i] ELSE -TP_PIPS[i],
     magic |-> TRADE_MAGIC,
     comment |-> SignalComment(signal)]

\* the position the terminal opens for a request it accepts
PositionOf(req) ==
    [comment |-> req.comment, type |-> req.type, volume |-> req.volume,
     magic |-> req.magic, tp |-> req.tp, sl |-> 0]

\* the passes of the loop whose order the terminal accepts
FillModes == {{}, {1}, 1..Len(TP_PIPS)}

\* open_multiple_trades: the requests sent, the tracker file and the
\* positions afterwards
open_multiple_trades(signal, tick_ok, positions, orders, file, fills) ==
    IF ~tick_ok \/ has_active_signal_trades(positions, orders, signal)
    THEN [sent |-> <<>>, file |-> file, positions |-> positions,
          raised |-> FALSE]
    ELSE LET dyn == get_dynamic_lot(positions, orders, file)
         IN IF dyn.raised
            THEN [sent |-> <<>>, file |-> file, positions |-> positions,
                  raised |-> TRUE]
            ELSE [sent |-> [i \in 1..Len(TP_PIPS) |->
                              OpenRequest(signal, dyn.lot, i)],
                  file |-> dyn.file,
                  positions |-> positions \cup
                      {PositionOf(OpenRequest(signal, dyn.lot, i)) :
                          i \in fills},
                  raised |-> FALSE]

\* opposite = "SELL" if signal == "BUY" else "BUY"
Opposite(signal) == IF signal = "BUY" THEN "SELL" ELSE "BUY"

\* the positions close_opposite_trades asks to close
OppositePositions(positions, signal) ==
    {pos \in positions :
        pos.comment = SignalComment(Opposite(signal))
        /\ pos.magic = TRADE_MAGIC}

CloseRequest(pos, signal) ==
    [type |-> IF pos.type = "BUY" THEN "SELL" ELSE "BUY",
     volume |-> pos.volume,
     magic |-> TRADE_MAGIC,
     comment |-> "Close-Opposite-" \o Opposite(signal)]

RECURSIVE SetToSeq(_)
SetToSeq(S) ==
    IF S = {} THEN <<>>
    ELSE LET x == CHOOSE y \in S : TRUE
         IN <<x>> \o SetToSeq(S \ {x})

\* close_opposite_trades: without a tick every position is passed over
close_opposite_trades(signal, tick_ok, positions, accepted) ==
    LET targets == IF tick_ok THEN OppositePositions(positions, signal)
                   ELSE {}
    IN [sent |-> SetToSeq({CloseRequest(pos, signal) : pos \in targets}),
        positions |-> IF accepted THEN positions \ targets ELSE positions]

\* adjust_breakeven over the five minutes of the loop: the positions of the
\* signal whose price went 70 pips their way get their stop moved
BreakevenTargets(positions, signal) ==
    {pos \in positions :
        pos.comment = SignalComment(signal) /\ pos.magic = TRADE_MAGIC
        /\ pos.sl = 0}
MoveStop(pos) ==
    [pos EXCEPT !.sl = IF pos.type = "BUY" THEN BREAKEVEN_BUFFER
                       ELSE -BREAKEVEN_BUFFER]
adjust_breakeven(signal, positions, reached, accepted) ==
    IF reached /\ accepted
    THEN (positions \ BreakevenTargets(positions, signal))
         \cup {MoveStop(pos) : pos \in BreakevenTargets(positions, signal)}
    ELSE positions

\* most runs of the entry point
MaxCalls == 2

TraderInit ==
    /\ t_pc = "off"
    /\ t_signal = ""
    /\ t_positions \in {{}, {ManualPosition}}
    /\ t_orders = {}
    /\ t_lot_file \in InitialLotFiles
    /\ t_sent = <<>>
    /\ t_closes = <<>>
    /\ t_calls = 0
    /\ t_first = None

\* initialize_mt5, find_tradeable_gold_symbol, get_latest_chart_signal and
\* "if signal:"
MainStart ==
    /\ t_pc \in {"off", "finished"}
    /\ t_calls < MaxCalls
    /\ \E signal \in TraderSignals :
        /\ t_signal' = signal
        /\ t_pc' = IF signal = "" THEN "finished"
                   ELSE "close"
    /\ t_sent' = <<>>
    /\ t_closes' = <<>>
    /\ t_calls' = t_calls + 1
    /\ UNCHANGED <<t_positions, t_orders, t_lot_file, t_first>>
    /\ UNCHANGED <<analyzeVars, aggVars, oneVars, runVars>>
    /\ UNCHANGED <<decideVars, pipeVars, apiVars>>

\* close_opposite_trades(symbol, signal)
MainClose ==
    /\ t_pc = "close"
    /\ \E tick_ok \in BOOLEAN, accepted \in BOOLEAN :
        LET r == close_opposite_trades(t_signal, tick_ok, t_positions,
                                       accepted)
        IN /\ t_closes' = r.sent
           /\ t_positions' = r.positions
    /\ t_pc' = "open"
    /\ UNCHANGED <<t_signal, t_orders, t_lot_file, t_sent, t_calls, t_first>>
    /\ UNCHANGED <<analyzeVars, aggVars, oneVars, runVars>>
    /\ UNCHANGED <<decideVars, pipeVars, apiVars>>

\* open_multiple_trades(symbol, signal)
MainOpen ==
    /\ t_pc = "open"
    /\ \E tick_ok \in BOOLEAN, fills \in FillModes :
        LET r == open_multiple_trades(t_signal, tick_ok, t_positions,
                                      t_orders, t_lot_file, fills)
        IN /\ t_sent' = r.sent
           /\ t_lot_file' = r.file
           /\ t_positions' = r.positions
           /\ t_pc' = IF r.raised THEN "crashed" ELSE "breakeven"
           /\ t_first' = IF t_first = None /\ r.sent # <<>>
                         THEN [lot |-> r.sent[1].volume,
                               tracker |-> t_lot_file,
                               idle |-> t_positions = {} /\ t_orders = {}]
                         ELSE t_first
    /\ UNCHANGED <<t_signal, t_orders, t_closes, t_calls>>
    /\ UNCHANGED <<analyzeVars, aggVars, oneVars, runVars>>
    /\ UNCHANGED <<decideVars, pipeVars, apiVars>>

\* the breakeven loop and mt5.shutdown()
MainBreakeven ==
    /\ t_pc = "breakeven"
    /\ \E reached \in BOOLEAN, accepted \in BOOLEAN :
        t_positions' = adjust_breakeven(t_signal, t_positions, reached,
                                        accepted)
    /\ t_pc' = "finished"
    /\ UNCHANGED <<t_signal, t_orders, t_lot_file, t_sent, t_closes, t_calls,
                   t_first>>
    /\ UNCHANGED <<analyzeVars, aggVars, oneVars, runVars>>
    /\ UNCHANGED <<decideVars, pipeVars, apiVars>>

\* the terminal closes the position of a batch whose take-profit is nearest
Nearest(pos, positions) ==
    \A other \in positions :
        (other.comment = pos.comment /\ other.volume = pos.volume)
            => Abs(pos.tp) <= Abs(other.tp)
BrokerClose ==
    /\ \E pos \in t_positions :
        /\ Nearest(pos, t_positions)
        /\ t_positions' = t_positions \ {pos}
    /\ UNCHANGED <<t_pc, t_signal, t_orders, t_lot_file, t_sent, t_closes,
                   t_calls, t_first>>
    /\ UNCHANGED <<analyzeVars, aggVars, oneVars, runVars>>
    /\ UNCHANGED <<decideVars, pipeVars, apiVars>>

\* a pending order is placed by other means, or goes
OrderPlaced ==
    /\ t_orders = {}
    /\ t_orders' = {ManualOrder}
    /\ UNCHANGED <<t_pc, t_signal, t_positions, t_lot_file, t_sent, t_closes,
                   t_calls, t_first>>
    /\ UNCHANGED <<analyzeVars, aggVars, oneVars, runVars>>
    /\ UNCHANGED <<decideVars, pipeVars, apiVars>>
OrderRemoved ==
    /\ t_orders # {}
    /\ t_orders' = {}
    /\ UNCHANGED <<t_pc, t_signal, t_positions, t_lot_file, t_sent, t_closes,
                   t_calls, t_first>>
    /\ UNCHANGED <<analyzeVars, aggVars, oneVars, runVars>>
    /\ UNCHANGED <<decideVars, pipeVars, apiVars>>

TraderNext ==
    \/ MainStart
    \/ MainClose
    \/ MainOpen
    \/ MainBreakeven
    \/ BrokerClose
    \/ OrderPlaced
    \/ OrderRemoved

TraderStart ==
    /\ AnalyzeIdle /\ AggIdle /\ OneIdle /\ RunIdle
    /\ DecideIdle /\ PipeIdle /\ ApiIdle /\ TraderInit

SpecTrader == TraderStart /\ [][TraderNext]_vars

(***************************************************************************)
(* mt5_api.py: POST /trade and POST /close                                 *)
(***************************************************************************)
MAGIC == 987654
DEVIATION == 20

\* str(...).upper() on the texts the requests carry
Upper(s) ==
    CASE s = "xauusd" -> "XAUUSD"
      [] s = "buy" -> "BUY"
      [] s = "sell" -> "SELL"
      [] s = "hold" -> "HOLD"
      [] OTHER -> s

\* what the terminal answers while one request is handled; volumes in
\* hundredths
SymbolInfo(vmin, vmax, step, mode) ==
    [volume_min |-> vmin, volume_max |-> vmax, volume_step |-> step,
     trade_filling_mode |-> mode]
SymbolInfos ==
    {None, SymbolInfo(10, 100, 5, "FOK"), SymbolInfo(1, 100, 1, "IOC"),
     SymbolInfo(1, 100, 0, "IOC")}
Ticks == {None, [bid |-> 1990, ask |-> 2000]}
\* account_info() and order_calc_margin(): either may be None
Funds ==
    {[account |-> FALSE, margin |-> 50, free |-> 0],
     [account |-> TRUE, margin |-> -1, free |-> 100],
     [account |-> TRUE, margin |-> 50, free |-> 100],
     [account |-> TRUE, margin |-> 100, free |-> 100],
     [account |-> TRUE, margin |-> 200, free |-> 100]}
\* order_send: None, TRADE_RETCODE_DONE, or a rejection
SendResults == {"none", "done", "rejected"}
\* the answers of one request: those that differ from the usual ones in at
\* most one place, and those where everything from some point on fails
UsualAnswers ==
    [select_ok |-> TRUE, info |-> SymbolInfo(10, 100, 5, "FOK"),
     tick |-> [bid |-> 1990, ask |-> 2000], again |-> TRUE,
     funds |-> [account |-> TRUE, margin |-> 100, free |-> 100],
     result |-> "done"]
NoAnswers ==
    [select_ok |-> FALSE, info |-> None, tick |-> None, again |-> FALSE,
     funds |-> [account |-> FALSE, margin |-> 50, free |-> 0],
     result |-> "none"]
Differences(answers) ==
    Cardinality({k \in DOMAIN UsualAnswers : answers[k] # UsualAnswers[k]})
TerminalAnswers ==
    {answers \in [select_ok : BOOLEAN, info : SymbolInfos, tick : Ticks,
                  again : BOOLEAN, funds : Funds, result : SendResults] :
        Differences(answers) <= 1}
    \cup {NoAnswers,
          [NoAnswers EXCEPT !.select_ok = TRUE],
          [NoAnswers EXCEPT !.select_ok = TRUE, !.tick = UsualAnswers.tick,
                            !.info = SymbolInfo(1, 100, 0, "IOC")],
          [NoAnswers EXCEPT !.select_ok = TRUE, !.tick = UsualAnswers.tick,
                            !.info = UsualAnswers.info]}

\* the JSON bodies of POST /trade: every parameter there, or one missing;
\* a volume is a number of hundredths or a text float() rejects (-1)
Unparsable == -1
TradePayload(symbol, action, volume) ==
    ("symbol" :> symbol) @@ ("action" :> action) @@ ("volume" :> volume)
TradePayloads ==
    {TradePayload("xauusd", "buy", v) : v \in {1, 12, 15, 500, Unparsable}}
    \cup {TradePayload("xauusd", "SELL", 15),
          TradePayload("xauusd", "HOLD", 15),
          TradePayload("xauusd", "HOLD", 500)}
    \cup {("action" :> "BUY") @@ ("volume" :> 15),
          ("symbol" :> "xauusd") @@ ("volume" :> 500),
          ("symbol" :> "xauusd") @@ ("action" :> "HOLD")}

\* the bodies of POST /close; a ticket of -1 is one int() rejects
ClosePayloads ==
    {"ticket" :> t : t \in {1, 7, Unparsable}}
    \cup {"symbol" :> s : s \in {"xauusd", "EURUSD"}}
    \cup {EmptyMap, ("ticket" :> 1) @@ ("symbol" :> "EURUSD")}

Position(ticket, symbol, type, volume) ==
    [ticket |-> ticket, symbol |-> symbol, type |-> type, volume |-> volume]
InitialPositions ==
    {{}, {Position(1, "XAUUSD", "BUY", 1)},
     {Position(1, "XAUUSD", "BUY", 1), Position(2, "XAUUSD", "SELL", 2)}}

Failure(text) == [success |-> FALSE, error |-> text]

require_symbol(answers) ==
    IF answers.select_ok THEN [ok |-> TRUE, msg |-> ""]
    ELSE [ok |-> FALSE, msg |-> "symbol_select failed"]

\* round(a / b) for a >= 0 and b > 0
RoundDiv(a, b) == (2 * a + b) \div (2 * b)

is_volume_ok(symbol_info, volume) ==
    LET vmin == symbol_info.volume_min
        vmax == symbol_info.volume_max
        step == symbol_info.volume_step
    IN IF volume < vmin \/ volume > vmax
       THEN [ok |-> FALSE, msg |-> "volume outside"]
       ELSE IF step = 0
       THEN [ok |-> FALSE, msg |-> "volume check error"]
       ELSE IF vmin + RoundDiv(volume - vmin, step) * step # volume
       THEN [ok |-> FALSE, msg |-> "volume not a multiple of step"]
       ELSE [ok |-> TRUE, msg |-> ""]

\* faulty variant: free margin is not compared with the margin
can_afford_NoCompare(funds) ==
    IF ~funds.account
    THEN [ok |-> FALSE, msg |-> "failed to fetch account_info"]
    ELSE IF funds.margin < 0
    THEN [ok |-> FALSE, msg |-> "failed to calculate margin"]
    ELSE [ok |-> TRUE, msg |-> ""]

\* a margin of None is held as -1
can_afford(funds) ==
    IF ~funds.account
    THEN [ok |-> FALSE, msg |-> "failed to fetch account_info"]
    ELSE IF funds.margin < 0
    THEN [ok |-> FALSE, msg |-> "failed to calculate margin"]
    ELSE IF funds.free < funds.margin
    THEN [ok |-> FALSE, msg |-> "not enough free margin"]
    ELSE [ok |-> TRUE, msg |-> ""]

build_order_request(symbol, action, volume, answers) ==
    IF ~answers.again \/ answers.tick = None \/ answers.info = None
    THEN Raised("RuntimeError")
    ELSE IF Upper(action) \notin {"BUY", "SELL"}
    THEN Raised("ValueError")
    ELSE [action |-> "TRADE_ACTION_DEAL",
          symbol |-> symbol,
          volume |-> volume,
          type |-> Upper(action),
          price |-> IF Upper(action) = "BUY" THEN answers.tick.ask
                    ELSE answers.tick.bid,
          sl |-> 0,
          tp |-> 0,
          deviation |-> DEVIATION,
          magic |-> MAGIC,
          comment |-> "mt5_api_<utcnow>",
          type_filling |-> IF answers.info.trade_filling_mode = "FOK"
                           THEN "FOK" ELSE "IOC"]

\* the body returned, and how many requests went to mt5.order_send
SendReply(result) ==
    IF result = "none" THEN [success |-> FALSE, error |-> "last_error"]
    ELSE [success |-> result = "done",
          retcode |-> result,
          details |-> result]

\* faulty variant: DRY_RUN is not looked at
send_order_Live(req, dry, result) ==
    [body |-> SendReply(result), sent |-> 1]

send_order(req, dry, result) ==
    IF dry THEN [body |-> [simulated |-> TRUE, request |-> req], sent |-> 0]
    ELSE [body |-> SendReply(result), sent |-> 1]

\* api_trade: the status, the body, the stage that answered, the requests
\* given to mt5.order_send, and the position the terminal opens
Reply(status, body, stage) ==
    [status |-> status, body |-> body, stage |-> stage, sent |-> 0,
     opened |-> {}, closed |-> {}]
Missing(payload) ==
    IF "symbol" \notin DOMAIN payload THEN "symbol"
    ELSE IF "action" \notin DOMAIN payload THEN "action"
    ELSE IF "volume" \notin DOMAIN payload THEN "volume"
    ELSE ""
api_trade(payload, answers, dry, ticket) ==
    IF Missing(payload) # ""
    THEN Reply(400, Failure("missing param: " \o Missing(payload)), "params")
    ELSE IF payload["volume"] = Unparsable
    THEN Reply(500, Raised("ValueError"), "crash")
    ELSE IF ~require_symbol(answers).ok
    THEN Reply(400, Failure(require_symbol(answers).msg), "symbol")
    ELSE IF answers.info = None \/ answers.tick = None
    THEN Reply(500, Failure("symbol info/tick unavailable"), "info")
    ELSE IF ~is_volume_ok(answers.info, payload["volume"]).ok
    THEN Reply(400, Failure(is_volume_ok(answers.info, payload["volume"]).msg),
               "volume")
    ELSE LET symbol == Upper(payload["symbol"])
             action == Upper(payload["action"])
             volume == payload["volume"]
             req == build_order_request(symbol, action, volume, answers)
         IN IF IsRaised(req)
            THEN Reply(500, Failure("failed to build request: "
                                      \o req.raised), "build")
            ELSE IF ~can_afford(answers.funds).ok
            THEN Reply(400, Failure(can_afford(answers.funds).msg), "margin")
            ELSE LET res == send_order(req, dry, answers.result)
                 IN [status |-> 200, body |-> res.body, stage |-> "send",
                     sent |-> res.sent,
                     opened |-> IF res.sent = 1 /\ answers.result = "done"
                                THEN {Position(ticket, symbol, action, volume)}
                                ELSE {},
                     closed |-> {}]

CloseRequestOf(p, answers) ==
    [action |-> "TRADE_ACTION_DEAL",
     symbol |-> p.symbol,
     volume |-> p.volume,
     type |-> IF p.type = "BUY" THEN "SELL" ELSE "BUY",
     position |-> p.ticket,
     price |-> IF p.type = "BUY" THEN answers.tick.bid ELSE answers.tick.ask,
     deviation |-> DEVIATION,
     magic |-> MAGIC,
     comment |-> "close_by_ticket"]

close_position_by_ticket(ticket, positions, answers, dry) ==
    LET pos == {p \in positions : p.ticket = ticket}
    IN IF pos = {}
       THEN [body |-> Failure("position not found"), sent |-> 0,
             closed |-> {}]
       ELSE IF answers.tick = None
       THEN [body |-> Raised("AttributeError"), sent |-> 0, closed |-> {}]
       ELSE IF dry
       THEN [body |-> [simulated |-> TRUE,
                       request |-> CloseRequestOf(CHOOSE p \in pos : TRUE,
                                                  answers)],
             sent |-> 0, closed |-> {}]
       ELSE [body |-> SendReply(answers.result), sent |-> 1,
             closed |-> IF answers.result = "done" THEN pos ELSE {}]

\* one entry of "results" per position, keyed by ticket
close_positions_by_symbol(symbol, positions, answers, dry) ==
    LET mine == {p \in positions : p.symbol = symbol}
        each == [t \in {p.ticket : p \in mine} |->
                    close_position_by_ticket(t, positions, answers, dry)]
    IN IF mine = {}
       THEN [body |-> Failure("no positions"), sent |-> 0, closed |-> {}]
       ELSE IF \E t \in DOMAIN each : IsRaised(each[t].body)
       THEN [body |-> Raised("AttributeError"), sent |-> 0, closed |-> {}]
       ELSE [body |-> [success |-> TRUE,
                       results |-> [t \in DOMAIN each |-> each[t].body]],
             sent |-> SetSum([t \in DOMAIN each |-> each[t].sent],
                             DOMAIN each),
             closed |-> UNION {each[t].closed : t \in DOMAIN each}]

api_close(payload, positions, answers, dry) ==
    IF "ticket" \in DOMAIN payload
    THEN IF payload["ticket"] = Unparsable
         THEN Reply(400, Failure("ticket must be integer"), "ticket")
         ELSE LET res == close_position_by_ticket(payload["ticket"],
                                                  positions, answers, dry)
              IN [status |-> IF IsRaised(res.body) THEN 500 ELSE 200,
                  body |-> res.body,
                  stage |-> IF IsRaised(res.body) THEN "crash"
                            ELSE "close_ticket",
                  sent |-> res.sent, opened |-> {}, closed |-> res.closed]
    ELSE IF "symbol" \in DOMAIN payload
    THEN LET res == close_positions_by_symbol(Upper(payload["symbol"]),
                                              positions, answers, dry)
         IN [status |-> IF IsRaised(res.body) THEN 500 ELSE 200,
             body |-> res.body,
             stage |-> IF IsRaised(res.body) THEN "crash"
                       ELSE "close_symbol",
             sent |-> res.sent, opened |-> {}, closed |-> res.closed]
    ELSE Reply(400, Failure("need ticket or symbol field"), "fields")

\* most requests
MaxRequests == 2

ApiInit ==
    /\ m_dry \in BOOLEAN
    /\ m_positions \in InitialPositions
    /\ m_sent = 0
    /\ m_in = None
    /\ m_resp = None
    /\ m_n = 0

ApiTrade ==
    /\ m_n < MaxRequests
    /\ \E payload \in TradePayloads, answers \in TerminalAnswers :
        LET r == api_trade(payload, answers, m_dry, 10 + m_n)
        IN /\ m_in' = [endpoint |-> "trade", payload |-> payload,
                       answers |-> answers, positions |-> m_positions,
                       sent_before |-> m_sent]
           /\ m_resp' = [status |-> r.status, body |-> r.body,
                         stage |-> r.stage]
           /\ m_sent' = m_sent + r.sent
           /\ m_positions' = m_positions \cup r.opened
    /\ m_n' = m_n + 1
    /\ UNCHANGED m_dry
    /\ UNCHANGED <<analyzeVars, aggVars, oneVars, runVars>>
    /\ UNCHANGED <<decideVars, pipeVars, traderVars>>

ApiClose ==
    /\ m_n < MaxRequests
    /\ \E payload \in ClosePayloads, answers \in TerminalAnswers :
        LET r == api_close(payload, m_positions, answers, m_dry)
        IN /\ m_in' = [endpoint |-> "close", payload |-> payload,
                       answers |-> answers, positions |-> m_positions,
                       sent_before |-> m_sent]
           /\ m_resp' = [status |-> r.status, body |-> r.body,
                         stage |-> r.stage]
           /\ m_sent' = m_sent + r.sent
           /\ m_positions' = m_positions \ r.closed
    /\ m_n' = m_n + 1
    /\ UNCHANGED m_dry
    /\ UNCHANGED <<analyzeVars, aggVars, oneVars, runVars>>
    /\ UNCHANGED <<decideVars, pipeVars, traderVars>>

ApiStart ==
    /\ AnalyzeIdle /\ AggIdle /\ OneIdle /\ RunIdle
    /\ DecideIdle /\ PipeIdle /\ TraderIdle /\ ApiInit

ApiNext == ApiTrade \/ ApiClose

SpecApi == ApiStart /\ [][ApiNext]_vars

(***************************************************************************)
(* Properties of aggregate_signals (SpecAgg)                               *)
(***************************************************************************)
AggReturned == g_pc = "done"
AggNonEmpty == AggReturned /\ DOMAIN g_in # {}

\* Scenario 3: M15 BUY score 40 and H4 SELL score -50
Scenario3 ==
    ("M15" :> [signal |-> "BUY", score |-> 40, patterns |-> <<>>])
    @@ ("H4" :> [signal |-> "SELL", score |-> -50, patterns |-> <<>>])

\* Scenario 2: M15 alone, BUY with score 30
Scenario2 == "M15" :> [signal |-> "BUY", score |-> 30, patterns |-> <<>>]

\* the numerator and the denominator the specification gives for avg, in
\* thousandths and in tenths
C2_Numerator ==
    SetSum([tf \in DOMAIN g_in |->
              (CASE g_in[tf].signal = "BUY" -> 1
                 [] g_in[tf].signal = "SELL" -> -1
                 [] OTHER -> 0)
              * (IF Abs(g_in[tf].score) < 100 THEN Abs(g_in[tf].score) ELSE 100)
              * WeightOf(g_weights, tf)],
           DOMAIN g_in)
C2_Denominator ==
    SetSum([tf \in DOMAIN g_in |-> WeightOf(g_weights, tf)], DOMAIN g_in)

\* C2: avg is the sum over the timeframes present of
\* polarity * min(|score|, 100)/100 * weight, divided by the sum of the
\* weights of exactly the timeframes present (a HOLD timeframe counts in the
\* denominator only); Scenario 3 gives total -0.43 over weight sum 2.3 and
\* the final signal HOLD.
C2_AvgIsWeightedMean ==
    AggNonEmpty =>
        /\ "avg" \in DOMAIN g_out
        /\ RatEq(g_out.avg, Rat(C2_Numerator, 100 * C2_Denominator))
        /\ (g_in = Scenario3 /\ g_weights = TF_WEIGHTS) =>
              /\ g_out.details["M15"].contribution = 320
              /\ g_out.details["H4"].contribution = -750
              /\ g_out.avg = Rat(-430, 100 * 23)
              /\ g_out.signal = "HOLD"

\* a HOLD timeframe next to a BUY one: its weight is in the denominator
C2_Witness ==
    /\ AggReturned
    /\ g_weights = TF_WEIGHTS
    /\ g_in = ("M15" :> [signal |-> "BUY", score |-> 40, patterns |-> <<>>])
              @@ ("H4" :> [signal |-> "HOLD", score |-> 0, patterns |-> <<>>])
    /\ g_out.avg = Rat(320, 100 * 23)

\* C3: for a non-empty mapping the final signal is BUY when avg >= 0.25,
\* SELL when avg <= -0.25 and HOLD when -0.25 < avg < 0.25.
C3_FinalSignalThresholds ==
    AggNonEmpty =>
        /\ RatLeq(Rat(1, 4), g_out.avg) => g_out.signal = "BUY"
        /\ RatLeq(g_out.avg, Rat(-1, 4)) => g_out.signal = "SELL"
        /\ (RatLt(Rat(-1, 4), g_out.avg) /\ RatLt(g_out.avg, Rat(1, 4)))
              => g_out.signal = "HOLD"

\* avg is exactly 0.25 and the signal is BUY
C3_Witness ==
    /\ AggNonEmpty
    /\ RatEq(g_out.avg, Rat(1, 4))
    /\ g_out.signal = "BUY"

\* clamp(|avg| * 100 + 10, 10, 95) of the returned avg
C4_Clamped ==
    LET a == RatAbs(g_out.avg)
        x == Rat(a.num * 100 + 10 * a.den, a.den)
    IN IF RatLeqInt(x, 10) THEN Rat(10, 1)
       ELSE IF RatLeq(Rat(95, 1), x) THEN Rat(95, 1)
       ELSE x

\* C4 as stated: the confidence is clamp(|avg| * 100 + 10, 10, 95) rounded
\* to the nearest integer (Scenario 2 gives 40, Scenario 3 gives 29).
C4_ConfidenceRounded ==
    AggNonEmpty =>
        /\ Abs(2 * g_out.confidence * C4_Clamped.den - 2 * C4_Clamped.num)
              <= C4_Clamped.den
        /\ (g_in = Scenario2) => g_out.confidence = 40
        /\ (g_in = Scenario3 /\ g_weights = TF_WEIGHTS) => g_out.confidence = 29

\* C4 amended: the confidence is clamp(|avg| * 100 + 10, 10, 95) with its
\* fraction cut off (int()), not rounded: Scenario 2 gives 40 and Scenario 3
\* gives 28.
C4_ConfidenceTruncated ==
    AggNonEmpty =>
        /\ g_out.confidence * C4_Clamped.den <= C4_Clamped.num
        /\ C4_Clamped.num < (g_out.confidence + 1) * C4_Clamped.den
        /\ (g_in = Scenario2) => g_out.confidence = 40
        /\ (g_in = Scenario3 /\ g_weights = TF_WEIGHTS) => g_out.confidence = 28

\* Scenario 3 has returned: 28.69... became 28
C4_Witness ==
    /\ AggReturned
    /\ g_in = Scenario3
    /\ g_weights = TF_WEIGHTS
    /\ g_out.confidence = 28

\* C5: every decision returned, for any mapping (empty or not), has an
\* integer confidence from 10 to 95.
C5_ConfidenceRange ==
    AggReturned => g_out.confidence \in 10..95

\* a score beyond the clamp: the confidence stops at 95
C5_Witness ==
    /\ AggNonEmpty
    /\ \E tf \in DOMAIN g_in : Abs(g_in[tf].score) > 100
    /\ g_out.confidence = 95

\* C7: with an empty mapping the weight sum is zero and the call returns
\* HOLD with confidence 10 and an empty breakdown, with no division, for any
\* weight table.
C7_EmptyMappingTerminal ==
    (AggReturned /\ DOMAIN g_in = {}) =>
        g_out = [signal |-> "HOLD", confidence |-> 10, details |-> EmptyMap]

\* the empty mapping under the program's weight table has returned
C7_Witness ==
    /\ AggReturned
    /\ DOMAIN g_in = {}
    /\ g_weights = TF_WEIGHTS
    /\ g_out.signal = "HOLD"

\* C23: with positive weights, the contribution of every timeframe has a
\* magnitude of at most that timeframe's weight, also when |score| is above
\* 100, and avg lies in [-1, 1].
C23_ContributionWithinWeight ==
    AggNonEmpty =>
        /\ \A tf \in DOMAIN g_in :
              /\ WeightOf(g_weights, tf) > 0
              /\ Abs(g_out.details[tf].contribution) <= 100 * WeightOf(g_weights, tf)
        /\ RatLeq(Rat(-1, 1), g_out.avg)
        /\ RatLeq(g_out.avg, Rat(1, 1))

\* a lone SELL with score -120: the contribution is the whole weight, avg -1
C23_Witness ==
    /\ AggNonEmpty
    /\ \E tf \in DOMAIN g_in :
          /\ g_in[tf].score = -120
          /\ g_in[tf].signal = "SELL"
          /\ g_out.details[tf].contribution = -100 * WeightOf(g_weights, tf)
    /\ RatEq(g_out.avg, Rat(-1, 1))

(***************************************************************************)
(* Properties of analyze_timeframe (SpecAnalyze)                           *)
(***************************************************************************)
AnalyzeReturned == a_pc = "done"
AnalyzedSeries == AnalyzeReturned /\ a_df # None /\ Len(a_df.rows) > 0

\* C1: for a non-empty series the signal is BUY when the score is >= 25,
\* SELL when it is <= -25 and HOLD strictly between; it is always one of
\* BUY, SELL, HOLD.
C1_ScoreThresholds ==
    AnalyzedSeries =>
        /\ a_res.signal \in {"BUY", "SELL", "HOLD"}
        /\ a_res.score >= 25 => a_res.signal = "BUY"
        /\ a_res.score <= -25 => a_res.signal = "SELL"
        /\ (-25 < a_res.score /\ a_res.score < 25) => a_res.signal = "HOLD"

\* a Hammer and a Doji after a bearish candle: 22 points, still HOLD
C1_Witness ==
    /\ AnalyzedSeries
    /\ a_res.score = 22
    /\ a_res.signal = "HOLD"

\* C6: a missing or empty series raises nothing and returns HOLD, score 0,
\* no patterns and explain "no data".
C6_NoDataTerminal ==
    (AnalyzeReturned /\ (a_df = None \/ Len(a_df.rows) = 0)) =>
        a_res = [patterns |-> <<>>, signal |-> "HOLD", score |-> 0,
                 explain |-> "no data"]

\* an empty frame (not None) has been analysed
C6_Witness ==
    /\ AnalyzeReturned
    /\ a_df # None
    /\ Len(a_df.rows) = 0
    /\ a_res.explain = "no data"

\* the window the call looked at: the last candle and the two before it
A_Len == Len(a_df.rows)
A_Cur == a_df.rows[A_Len]
A_Prev == IF A_Len >= 2 THEN a_df.rows[A_Len - 1] ELSE None
A_Prev2 == IF A_Len >= 3 THEN a_df.rows[A_Len - 2] ELSE None

\* the pattern names returned, in order
A_Names == [i \in 1..Len(a_res.patterns) |-> a_res.patterns[i][1]]
A_Has(name) == \E i \in 1..Len(a_res.patterns) : a_res.patterns[i][1] = name
A_Count(name) == Cardinality({i \in 1..Len(a_res.patterns) : a_res.patterns[i][1] = name})

Bearish(row) == row.Close < row.Open
Bullish(row) == row.Close > row.Open

\* what the six detectors other than Doji add when each is evaluated on the
\* window by itself
A_Hammer == IF is_hammer(A_Cur) THEN 20 ELSE 0
A_ShootingStar == IF is_shooting_star(A_Cur) THEN -20 ELSE 0
A_BullishEngulfing == IF is_bullish_engulfing(A_Prev, A_Cur) THEN 30 ELSE 0
A_BearishEngulfing == IF is_bearish_engulfing(A_Prev, A_Cur) THEN -30 ELSE 0
A_MorningStar == IF is_morning_star(A_Prev2, A_Prev, A_Cur) THEN 35 ELSE 0
A_EveningStar == IF is_evening_star(A_Prev2, A_Prev, A_Cur) THEN -35 ELSE 0
A_NonDoji ==
    A_Hammer + A_ShootingStar + A_BullishEngulfing + A_BearishEngulfing
    + A_MorningStar + A_EveningStar

\* the names of the detectors that match the window, in program order
A_Matching ==
    (IF is_doji(A_Cur, DOJI_PCT) THEN <<"Doji">> ELSE <<>>)
    \o (IF is_hammer(A_Cur) THEN <<"Hammer">> ELSE <<>>)
    \o (IF is_shooting_star(A_Cur) THEN <<"Shooting Star">> ELSE <<>>)
    \o (IF is_bullish_engulfing(A_Prev, A_Cur) THEN <<"Bullish Engulfing">> ELSE <<>>)
    \o (IF is_bearish_engulfing(A_Prev, A_Cur) THEN <<"Bearish Engulfing">> ELSE <<>>)
    \o (IF is_morning_star(A_Prev2, A_Prev, A_Cur) THEN <<"Morning Star">> ELSE <<>>)
    \o (IF is_evening_star(A_Prev2, A_Prev, A_Cur) THEN <<"Evening Star">> ELSE <<>>)

PatternNames ==
    {"Doji", "Hammer", "Shooting Star", "Bullish Engulfing",
     "Bearish Engulfing", "Morning Star", "Evening Star"}

\* C11: the score is the sum of what every detector matching the window
\* contributes (Hammer +20, Shooting Star -20, Bullish Engulfing +30, Bearish
\* Engulfing -30, Morning Star +35, Evening Star -35, and a Doji +2 or -2, or
\* nothing when no candle precedes it); every detector is evaluated whatever
\* the others found, each matching one puts its name in the result exactly
\* once, and a Hammer with a Bullish Engulfing gives 50.
C11_ScoreIsSumOfMatches ==
    AnalyzedSeries =>
        /\ A_Names = A_Matching
        /\ \A name \in PatternNames : A_Count(name) <= 1
        /\ LET doji == a_res.score - A_NonDoji
           IN IF is_doji(A_Cur, DOJI_PCT) /\ A_Prev # None THEN doji \in {2, -2}
              ELSE doji = 0
        /\ A_Names = <<"Hammer", "Bullish Engulfing">> => a_res.score = 50

\* a Hammer that engulfs the bearish candle before it: 20 + 30
C11_Witness ==
    /\ AnalyzedSeries
    /\ A_Names = <<"Hammer", "Bullish Engulfing">>
    /\ a_res.score = 50

\* the body of b lies inside the body interval of a
BodyContains(a, b) ==
    /\ Min(a.Open, a.Close) <= Min(b.Open, b.Close)
    /\ Max(a.Open, a.Close) >= Max(b.Open, b.Close)

\* C12: Bullish Engulfing is reported exactly when the previous candle is
\* bearish, the current one bullish and the current body interval contains
\* the previous one; Bearish Engulfing exactly when the previous is bullish,
\* the current bearish, with the same containment; with no previous candle
\* neither is reported.
C12_EngulfingExactly ==
    AnalyzedSeries =>
        /\ A_Prev = None =>
              (~A_Has("Bullish Engulfing") /\ ~A_Has("Bearish Engulfing"))
        /\ A_Prev # None =>
              /\ A_Has("Bullish Engulfing") <=>
                    (Bearish(A_Prev) /\ Bullish(A_Cur) /\ BodyContains(A_Cur, A_Prev))
              /\ A_Has("Bearish Engulfing") <=>
                    (Bullish(A_Prev) /\ Bearish(A_Cur) /\ BodyContains(A_Cur, A_Prev))

\* opposite directions without containment: nothing is reported
C12_Witness ==
    /\ AnalyzedSeries
    /\ A_Prev # None
    /\ Bearish(A_Prev)
    /\ Bullish(A_Cur)
    /\ ~BodyContains(A_Cur, A_Prev)
    /\ ~A_Has("Bullish Engulfing")

\* the geometry of a candle, from its four prices
BodyOf(row) == Abs(row.Close - row.Open)
UpperOf(row) == row.High - Max(row.Open, row.Close)
LowerOf(row) == Min(row.Open, row.Close) - row.Low
\* body / range <= num / den, a candle without range having the ratio of its
\* body to a tiny positive number
RatioAtMost(row, num, den) ==
    IF row.High > row.Low
    THEN den * BodyOf(row) <= num * (row.High - row.Low)
    ELSE BodyOf(row) = 0

\* what the Doji block adds
A_Doji ==
    IF is_doji(A_Cur, DOJI_PCT) /\ A_Prev # None
    THEN (IF A_Prev.Close < A_Prev.Open THEN 2 ELSE -2)
    ELSE 0

\* pct <= 0.35, lowerShadow >= 2.0 * body, upperShadow <= body
HammerShape(row) ==
    /\ RatioAtMost(row, 35, 100)
    /\ LowerOf(row) >= 2 * BodyOf(row)
    /\ UpperOf(row) <= BodyOf(row)

\* C13 as stated: the last candle is reported as a Hammer, and adds +20,
\* exactly when body/range <= 0.35, lowerShadow >= 2 * body and
\* upperShadow <= body, candles with a body of zero included.
C13_HammerExactly ==
    AnalyzedSeries =>
        /\ is_hammer(A_Cur) <=> HammerShape(A_Cur)
        /\ A_Has("Hammer") <=> HammerShape(A_Cur)
        /\ a_res.score - (A_Doji + A_NonDoji - A_Hammer)
              = (IF HammerShape(A_Cur) THEN 20 ELSE 0)

\* C13 amended: the last candle is reported as a Hammer, and adds +20,
\* exactly when its body is not zero and body/range <= 0.35,
\* lowerShadow >= 2 * body and upperShadow <= body; a candle whose body is
\* zero is never a Hammer.
C13_HammerNeedsBody ==
    AnalyzedSeries =>
        LET shape == BodyOf(A_Cur) # 0 /\ HammerShape(A_Cur)
        IN /\ is_hammer(A_Cur) <=> shape
           /\ A_Has("Hammer") <=> shape
           /\ a_res.score - (A_Doji + A_NonDoji - A_Hammer)
                 = (IF shape THEN 20 ELSE 0)

\* a lone Hammer with a body: 20 points
C13_Witness ==
    /\ AnalyzedSeries
    /\ BodyOf(A_Cur) > 0
    /\ HammerShape(A_Cur)
    /\ A_Names = <<"Hammer">>
    /\ a_res.score = 20

\* pct <= 0.35, upperShadow >= 2.0 * body, lowerShadow <= body
ShootingStarShape(row) ==
    /\ RatioAtMost(row, 35, 100)
    /\ UpperOf(row) >= 2 * BodyOf(row)
    /\ LowerOf(row) <= BodyOf(row)

\* C14 as stated: the last candle is reported as a Shooting Star, and adds
\* -20, exactly when body/range <= 0.35, upperShadow >= 2 * body and
\* lowerShadow <= body, candles with a body of zero included.
C14_ShootingStarExactly ==
    AnalyzedSeries =>
        /\ is_shooting_star(A_Cur) <=> ShootingStarShape(A_Cur)
        /\ A_Has("Shooting Star") <=> ShootingStarShape(A_Cur)
        /\ a_res.score - (A_Doji + A_NonDoji - A_ShootingStar)
              = (IF ShootingStarShape(A_Cur) THEN -20 ELSE 0)

\* C14 amended: the last candle is reported as a Shooting Star, and adds
\* -20, exactly when its body is not zero and body/range <= 0.35,
\* upperShadow >= 2 * body and lowerShadow <= body; a candle whose body is
\* zero is never a Shooting Star.
C14_ShootingStarNeedsBody ==
    AnalyzedSeries =>
        LET shape == BodyOf(A_Cur) # 0 /\ ShootingStarShape(A_Cur)
        IN /\ is_shooting_star(A_Cur) <=> shape
           /\ A_Has("Shooting Star") <=> shape
           /\ a_res.score - (A_Doji + A_NonDoji - A_ShootingStar)
                 = (IF shape THEN -20 ELSE 0)

\* a lone Shooting Star with a body: -20 points
C14_Witness ==
    /\ AnalyzedSeries
    /\ BodyOf(A_Cur) > 0
    /\ ShootingStarShape(A_Cur)
    /\ A_Names = <<"Shooting Star">>
    /\ a_res.score = -20

\* a Doji by the 0.10 threshold
DojiShape(row) == RatioAtMost(row, 10, 100)

\* C15: Morning Star is reported, and adds +35, exactly when there are three
\* candles, candle n-2 is bearish with a body above 0.10 of its range,
\* candle n-1 is a Doji by the 0.10 threshold and candle n is bullish and
\* closes strictly above the midpoint (open + close) / 2 of candle n-2; with
\* fewer than three candles it is never reported.
C15_MorningStarExactly ==
    AnalyzedSeries =>
        LET star == /\ A_Prev2 # None
                    /\ Bearish(A_Prev2)
                    /\ ~DojiShape(A_Prev2)
                    /\ DojiShape(A_Prev)
                    /\ Bullish(A_Cur)
                    /\ 2 * A_Cur.Close > A_Prev2.Open + A_Prev2.Close
        IN /\ A_Has("Morning Star") <=> star
           /\ a_res.score - (A_Doji + A_NonDoji - A_MorningStar)
                 = (IF star THEN 35 ELSE 0)

\* C16: Evening Star is reported, and adds -35, exactly when there are three
\* candles, candle n-2 is bullish with a body above 0.10 of its range,
\* candle n-1 is a Doji by the 0.10 threshold and candle n is bearish and
\* closes strictly below the midpoint (open + close) / 2 of candle n-2; with
\* fewer than three candles it is never reported.
C16_EveningStarExactly ==
    AnalyzedSeries =>
        LET star == /\ A_Prev2 # None
                    /\ Bullish(A_Prev2)
                    /\ ~DojiShape(A_Prev2)
                    /\ DojiShape(A_Prev)
                    /\ Bearish(A_Cur)
                    /\ 2 * A_Cur.Close < A_Prev2.Open + A_Prev2.Close
        IN /\ A_Has("Evening Star") <=> star
           /\ a_res.score - (A_Doji + A_NonDoji - A_EveningStar)
                 = (IF star THEN -35 ELSE 0)

\* C17: when the last candle is a Doji it is reported, and the Doji block
\* changes the score by +2 if the candle before it is bearish, by -2 if that
\* candle is bullish, and not at all if that candle is neither (close = open)
\* or is missing.
C17_DojiFollowsDirection ==
    (AnalyzedSeries /\ DojiShape(A_Cur)) =>
        /\ A_Has("Doji")
        /\ a_res.score - A_NonDoji =
              (IF A_Prev = None THEN 0
               ELSE IF Bearish(A_Prev) THEN 2
               ELSE IF Bullish(A_Prev) THEN -2
               ELSE 0)

\* C18: is_bullish_engulfing and is_bearish_engulfing are never both true of
\* a (previous, current) pair, and no result lists both Bullish Engulfing and
\* Bearish Engulfing.
C18_EngulfingExclusive ==
    AnalyzedSeries =>
        /\ ~(is_bullish_engulfing(A_Prev, A_Cur) /\ is_bearish_engulfing(A_Prev, A_Cur))
        /\ ~(A_Has("Bullish Engulfing") /\ A_Has("Bearish Engulfing"))

\* a Bearish Engulfing is reported, and no Bullish Engulfing with it
C18_Witness ==
    /\ AnalyzedSeries
    /\ is_bearish_engulfing(A_Prev, A_Cur)
    /\ A_Has("Bearish Engulfing")
    /\ ~A_Has("Bullish Engulfing")

\* C20: every pattern returned carries the timestamp of the most recent
\* candle of the series, whatever the name of the time index; never a row
\* number.
C20_PatternsCarryTimestamp ==
    AnalyzedSeries =>
        \A i \in 1..Len(a_res.patterns) :
            /\ IsTimestamp(a_res.patterns[i][2])
            /\ a_res.patterns[i][2] = a_df.index[A_Len]

(***************************************************************************)
(* Properties of one timeframe aggregated alone (SpecOne)                  *)
(***************************************************************************)
OneAggregated == o_pc = "aggregated"
OneLabel == CHOOSE tf \in DOMAIN g_in : TRUE
ClampScore(x) == IF x > 100 THEN 100 ELSE IF x < -100 THEN -100 ELSE x

\* C9 as stated: with one timeframe, avg = clamp(score, -100, 100) / 100 for
\* every score the analyzer produces, whatever the weight.
C9_SingleAvgIsScore ==
    OneAggregated =>
        RatEq(g_out.avg, Rat(ClampScore(o_res.score), 100))

\* C9 amended: with one timeframe, avg = clamp(score, -100, 100) / 100 when
\* the timeframe's signal is BUY or SELL, and avg = 0 when it is HOLD
\* (|score| < 25), whatever the weight; score 30 gives 0.30.
C9_SingleAvgIsSignedScore ==
    OneAggregated =>
        /\ o_res.signal \in {"BUY", "SELL"} =>
              RatEq(g_out.avg, Rat(ClampScore(o_res.score), 100))
        /\ o_res.signal = "HOLD" => RatEq(g_out.avg, Rat(0, 1))
        /\ o_res.score = 30 => RatEq(g_out.avg, Rat(30, 100))

\* score 30 under M15 (weight 0.8): avg 0.30
C9_Witness ==
    /\ OneAggregated
    /\ o_res.score = 30
    /\ OneLabel = "M15"
    /\ g_weights = TF_WEIGHTS
    /\ g_out.avg = Rat(240, 800)

\* C10: with one timeframe, the final signal is that timeframe's own
\* signal, for every weight, the default weight of an unlisted label
\* included.
C10_SingleSignalKept ==
    OneAggregated => g_out.signal = o_res.signal

\* a SELL under M5, which TF_WEIGHTS does not list
C10_Witness ==
    /\ OneAggregated
    /\ OneLabel = "M5"
    /\ g_weights = TF_WEIGHTS
    /\ o_res.signal = "SELL"
    /\ g_out.signal = "SELL"

(***************************************************************************)
(* Properties over well-formed and malformed candles (SpecAny)             *)
(***************************************************************************)
\* C30: every score analyze_timeframe returns, for series of well-formed and
\* malformed candles alike, lies in [-87, 87]; so the clamp of |score| at 100
\* leaves it as it is, and |avg| of the aggregate is at most 0.87.
C30_ScoreWithin87 ==
    /\ o_pc \in {"analyzed_any", "aggregated_any"} =>
          /\ o_res.score \in -87..87
          /\ MagNorm(o_res) = Abs(o_res.score)
    /\ o_pc = "aggregated_any" =>
          /\ RatLeq(RatAbs(g_out.avg), Rat(87, 100))
          /\ \A tf \in DOMAIN g_in :
                o_res.signal # "HOLD" =>
                   Abs(g_out.details[tf].contribution)
                      = Abs(o_res.score) * WeightOf(TF_WEIGHTS, tf)

\* Doji, Hammer, Bullish Engulfing and Morning Star at once: 87, avg 0.87
C30_Witness ==
    /\ o_pc = "aggregated_any"
    /\ o_res.score = 87
    /\ RatEq(g_out.avg, Rat(87, 100))

(***************************************************************************)
(* Properties of run_candlestick_analysis (Spec)                           *)
(***************************************************************************)
\* no fetch of this run, so far, has delivered a candle
NoFetchHasData == \A tf \in DOMAIN r_fetches : r_fetches[tf] # "data"
\* every configured timeframe was fetched, and none delivered a candle
AllFetchesFailed ==
    /\ DOMAIN r_fetches = {TIMEFRAMES[i] : i \in 1..Len(TIMEFRAMES)}
    /\ NoFetchHasData

HoldTenFields == ("candle_Signal" :> "HOLD") @@ ("candle_Confidence" :> "10%")

\* C8: if every configured timeframe's fetch raises or returns no data, the
\* run does not stop on an exception, its decision is HOLD with confidence
\* 10, and the fields folded into the latest-signal document are
\* candle_Signal = HOLD and candle_Confidence = "10%".
C8_AllEmptyRunHolds ==
    /\ NoFetchHasData => r_pc # "crashed"
    /\ (AllFetchesFailed /\ agg # None) =>
          (agg.signal = "HOLD" /\ agg.confidence = 10)
    /\ (AllFetchesFailed /\ new_signal # None) => new_signal = HoldTenFields
    /\ (AllFetchesFailed /\ existing_data # None) =>
          /\ existing_data["candle_Signal"] = "HOLD"
          /\ existing_data["candle_Confidence"] = "10%"
    /\ (AllFetchesFailed /\ r_pc = "returned" /\ r_saved = "ok") =>
          /\ IsJson(latest_file)
          /\ latest_file.json["candle_Signal"] = "HOLD"
          /\ latest_file.json["candle_Confidence"] = "10%"

\* the length of a timeframe, in minutes
Minutes(tf) ==
    CASE tf = "M5" -> 5 [] tf = "M15" -> 15 [] tf = "H1" -> 60
      [] tf = "H4" -> 240 [] tf = "D1" -> 1440
\* the labels a run can aggregate: those of TIMEFRAMES and of TF_WEIGHTS
RunLabels == {TIMEFRAMES[i] : i \in 1..Len(TIMEFRAMES)} \cup DOMAIN TF_WEIGHTS

\* C24: of two labels the run can aggregate, the one of the longer timeframe
\* is applied the higher weight, a label TF_WEIGHTS does not list being
\* applied the default; so of two timeframes of a run with the same BUY
\* score the longer one contributes more.
C24_LongerWeighsMore ==
    agg # None =>
        /\ \A a \in RunLabels, b \in RunLabels :
              Minutes(a) < Minutes(b)
              => WeightOf(TF_WEIGHTS, a) < WeightOf(TF_WEIGHTS, b)
        /\ \A a \in DOMAIN agg.details, b \in DOMAIN agg.details :
              (/\ Minutes(a) < Minutes(b)
               /\ results[a].signal = "BUY"
               /\ results[b].signal = "BUY"
               /\ results[a].score = results[b].score)
              => agg.details[a].contribution < agg.details[b].contribution

\* the run returned after writing latest_signal.json
RunWrote == r_pc = "returned" /\ r_saved = "ok"
CandleFields == {"candle_Signal", "candle_Confidence"}
\* the document holds this run's two fields
HoldsThisRun(doc) ==
    /\ CandleFields \subseteq DOMAIN doc
    /\ doc["candle_Signal"] = agg.signal
    /\ doc["candle_Confidence"] = PercentStr(agg.confidence)
\* every other field of the document before the run is in doc, unchanged
KeepsOthers(doc) ==
    \A k \in (DOMAIN r_before.json) \ CandleFields :
        k \in DOMAIN doc /\ doc[k] = r_before.json[k]

C8_Witness ==
    /\ r_pc = "returned"
    /\ r_runs = 1
    /\ AllFetchesFailed
    /\ r_fetches["M5"] = "raised"
    /\ r_fetches["M15"] = "empty"
    /\ r_saved = "ok"
    /\ latest_file = Json(HoldTenFields @@ PipelineFields)

(***************************************************************************)
(* Properties of decide_signal (SpecDecide)                                *)
(***************************************************************************)
DecideReturned == d_pc = "returned"
\* the call had an indicator set without an error
DecidedOnIndicators ==
    /\ DecideReturned
    /\ ~Falsy(d_in.indicators)
    /\ "error" \notin DOMAIN d_in.indicators
    /\ "latest_price" \in DOMAIN d_in.indicators
D_Rsi == Get(d_in.indicators, "rsi_14", 50)

\* C29: for every indicator set without an error, decide_signal returns SELL
\* whenever RSI > 70 and BUY whenever RSI < 30, whatever the price against
\* the long SMA, the momentum and the news sentiment
C29_RsiDecides ==
    DecidedOnIndicators =>
        /\ D_Rsi > 70 => d_out.signal = "SELL"
        /\ D_Rsi < 30 => d_out.signal = "BUY"

(***************************************************************************)
(* Properties of the shared latest-signal document (SpecShared)            *)
(***************************************************************************)
\* both runs are past their write of latest_signal.json, and both writes and
\* both loads went well
BothUpdated ==
    /\ r_pc = "returned"
    /\ p_pc \in {"record", "returned"}
    /\ r_saved = "ok"
    /\ p_saved = "ok"
    /\ r_loaded \in {"absent", "parsed"}
    /\ p_loaded \in {"absent", "parsed"}

\* C25: when run_pipeline and run_candlestick_analysis update the shared
\* document with their read and write steps interleaved in any order, no
\* update is lost: once both have finished the document holds Signal and
\* Confidence of the pipeline run and candle_Signal and candle_Confidence of
\* the candle run
C25_NoUpdateLost ==
    BothUpdated =>
        /\ IsJson(latest_file)
        /\ \A k \in DOMAIN p_new_signal :
              k \in DOMAIN latest_file.json
              /\ latest_file.json[k] = p_new_signal[k]
        /\ \A k \in DOMAIN new_signal :
              k \in DOMAIN latest_file.json
              /\ latest_file.json[k] = new_signal[k]

(***************************************************************************)
(* Properties of the gold trader (SpecTrader)                              *)
(***************************************************************************)
\* C26: open_multiple_trades submits orders only when the signal is BUY or
\* SELL, and then only in that direction; for any other signal it submits
\* nothing, and close_opposite_trades followed by open_multiple_trades, as
\* the main entry point runs them, closes nothing and opens nothing
C26_OnlyBuyOrSellTrades ==
    /\ \A i \in DOMAIN t_sent :
          t_signal \in {"BUY", "SELL"} /\ t_sent[i].type = t_signal
    /\ t_signal \notin {"BUY", "SELL"} => (t_closes = <<>> /\ t_sent = <<>>)

\* C27: the persisted lot changes only inside get_dynamic_lot, at a moment
\* without positions and without pending orders, and then it grows by one
\* hundredth; when a position or an order exists the lot is returned as it
\* is and the tracker file is not written; the lot never decreases
C27_LotStep ==
    /\ t_lot_file' # t_lot_file =>
          /\ t_pc = "open"
          /\ t_positions = {} /\ t_orders = {}
          /\ ~LoadRaises(t_lot_file)
          /\ t_lot_file' = Json("last_lot" :> (load_lot_size(t_lot_file) + 1))
    /\ (t_pc = "open" /\ (t_positions # {} \/ t_orders # {})) =>
          /\ t_lot_file' = t_lot_file
          /\ \A i \in DOMAIN t_sent' :
                t_sent'[i].volume = load_lot_size(t_lot_file)
    /\ (~LoadRaises(t_lot_file) /\ ~LoadRaises(t_lot_file')) =>
          load_lot_size(t_lot_file') >= load_lot_size(t_lot_file)
C28_FirstBatchBaseLot ==
    (t_first # None /\ t_first.tracker = Absent) => t_first.lot = BASE_LOT

(***************************************************************************)
(* Properties of the MT5 API (SpecApi)                                     *)
(***************************************************************************)
ApiAnswered == m_n > 0
TradeAnswered == ApiAnswered /\ m_in.endpoint = "trade"
CloseAnswered == ApiAnswered /\ m_in.endpoint = "close"

\* the checks of POST /trade, read off the request and the terminal's answers
ParamsPresent == {"symbol", "action", "volume"} \subseteq DOMAIN m_in.payload
VolumeParsed == m_in.payload["volume"] # Unparsable
SymbolSelected == m_in.answers.select_ok
InfoAndTick == m_in.answers.info # None /\ m_in.answers.tick # None
VolumeAllowed ==
    LET info == m_in.answers.info
        volume == m_in.payload["volume"]
    IN /\ info.volume_min <= volume
       /\ volume <= info.volume_max
       /\ info.volume_step > 0
       /\ (volume - info.volume_min) % info.volume_step = 0
RequestBuilt ==
    m_in.answers.again /\ Upper(m_in.payload["action"]) \in {"BUY", "SELL"}
MarginCovered ==
    LET funds == m_in.answers.funds
    IN funds.account /\ funds.margin >= 0 /\ funds.free >= funds.margin

\* the first check that fails, in the order of the claim; "crash" is a volume
\* float() rejects, which ends the request before the symbol is selected
FirstFailing ==
    IF ~ParamsPresent THEN "params"
    ELSE IF ~VolumeParsed THEN "crash"
    ELSE IF ~SymbolSelected THEN "symbol"
    ELSE IF ~InfoAndTick THEN "info"
    ELSE IF ~VolumeAllowed THEN "volume"
    ELSE IF ~RequestBuilt THEN "build"
    ELSE IF ~MarginCovered THEN "margin"
    ELSE "none"

Simulated(body) == "simulated" \in DOMAIN body /\ body.simulated

\* the positions a close request is about
CloseTargets ==
    IF "ticket" \in DOMAIN m_in.payload
    THEN {p \in m_in.positions : p.ticket = m_in.payload["ticket"]}
    ELSE IF "symbol" \in DOMAIN m_in.payload
    THEN {p \in m_in.positions : p.symbol = Upper(m_in.payload["symbol"])}
    ELSE {}
ClosesPosition(req, p) ==
    /\ req.position = p.ticket
    /\ req.symbol = p.symbol
    /\ req.volume = p.volume
    /\ req.type = (IF p.type = "BUY" THEN "SELL" ELSE "BUY")

\* C21: while DRY_RUN is true no sequence of POST /trade and POST /close
\* requests leads to a call of mt5.order_send; a request that passes
\* validation returns a simulated result carrying the request that would
\* have been sent
C21_DryRunSendsNothing ==
    m_dry =>
        /\ m_sent = 0
        /\ (TradeAnswered /\ FirstFailing = "none") =>
              /\ Simulated(m_resp.body)
              /\ m_resp.body.request.symbol = Upper(m_in.payload["symbol"])
              /\ m_resp.body.request.type = Upper(m_in.payload["action"])
              /\ m_resp.body.request.volume = m_in.payload["volume"]
        /\ (CloseAnswered /\ m_resp.stage = "close_ticket"
              /\ CloseTargets # {}) =>
              /\ Simulated(m_resp.body)
              /\ \A p \in CloseTargets : ClosesPosition(m_resp.body.request, p)
        /\ (CloseAnswered /\ m_resp.stage = "close_symbol"
              /\ CloseTargets # {}) =>
              /\ DOMAIN m_resp.body.results = {p.ticket : p \in CloseTargets}
              /\ \A p \in CloseTargets :
                    /\ Simulated(m_resp.body.results[p.ticket])
                    /\ ClosesPosition(m_resp.body.results[p.ticket].request, p)

\* a dry run whose second request is a trade that passed every check
C21_Witness ==
    /\ m_dry
    /\ m_n >= 2
    /\ TradeAnswered
    /\ m_resp.stage = "send"
    /\ Simulated(m_resp.body)

\* C22: for every POST /trade, send_order is reached only after the checks
\* passed in the order parameters, symbol selection, info and tick, volume,
\* request built, margin; the first failing check gives an error response
\* with success false, and no order is sent or simulated
C22_ChecksBeforeSend ==
    TradeAnswered =>
        /\ m_resp.stage = "send" <=> FirstFailing = "none"
        /\ FirstFailing \notin {"none", "crash"} =>
              /\ m_resp.stage = FirstFailing
              /\ m_resp.status \in {400, 500}
              /\ m_resp.body.success = FALSE
        /\ FirstFailing # "none" =>
              /\ m_sent = m_in.sent_before
              /\ ~Simulated(m_resp.body)

\* a trade turned down by the margin check, the last of the checks
C22_Witness ==
    /\ TradeAnswered
    /\ FirstFailing = "margin"
    /\ m_resp.stage = "margin"
    /\ m_resp.body.success = FALSE

====
